---- MODULE Spec2Model ----
(***************************************************************************)
(* BowBot: the economy data layer (utils/supabase_client.py) and the game  *)
(* commands that use it (cogs/blackjack.py, cogs/roulette.py,              *)
(* cogs/casino.py, core/blackjack.py, core/roulette.py).                   *)
(*                                                                         *)
(* The Supabase client used by the data layer is the synchronous one, so   *)
(* no function of utils/supabase_client.py ever yields to the event loop:  *)
(* each of them is one atomic step.  A command yields only at Discord      *)
(* calls (ctx.send, message.edit, message.delete, interaction responses)   *)
(* and at asyncio.wait / View.wait.                                        *)
(***************************************************************************)
EXTENDS Integers, Sequences, FiniteSets, TLC

None == "None"

Guilds == {"g1", "g2"}
Users == {"u1", "u2"}
Keys == Guilds \X Users

(* TTL = 60 * 10 *)
TTL == 600

(* The store calls that can raise, by call site. *)
Sites == {"select", "insert", "update", "refresh", "log"}
FaultSets == {{}} \cup {{s} : s \in Sites}

(* steal_chance and steal_max_percentage are in hundredths: 0.65, 0.25. *)
DEFAULT_ECONOMY_CONFIG ==
    [work_cooldown_hours |-> 1, steal_cooldown_hours |-> 6,
     work_min_amount |-> 50, work_max_amount |-> 500,
     steal_chance |-> 65, steal_penalty |-> 100, steal_max_percentage |-> 25,
     starting_balance |-> 1000, currency_name |-> "pounds", currency_symbol |-> "£",
     log_channel |-> None]

DEFAULT_MONEY_DROP_CONFIG == [enabled |-> FALSE, min_amount |-> 50, max_amount |-> 150]

DEFAULT_TIKTOK_DATA ==
    [username |-> None, id |-> None, code |-> None, code_expires |-> -1, link |-> None]

VARIABLES
    supabase,             \* the remote tables: server_configs, economy, economy_logs
    SERVER_CONFIG_CACHE,  \* guild_id -> CachedData
    ECONOMY_CACHE,        \* (guild_id, user_id) -> CachedData
    now,                  \* datetime.now(timezone.utc), in seconds
    ncalls                \* number of data-layer calls made so far

dataVars == <<supabase, SERVER_CONFIG_CACHE, ECONOMY_CACHE, now, ncalls>>

VARIABLES
    active_games,   \* cog -> user -> the entry of the cog's active_games dict
    cmd,            \* command -> its locals and its position
    stale,          \* cog -> user -> views left running by a turn the chat channel resolved
    timeout_tasks   \* cog -> user -> on_timeout tasks suspended in message.edit, by origin

gameVars == <<active_games, cmd, stale, timeout_tasks>>

VARIABLES
    merge_source,       \* deep_merge's source: the partial document
    merge_destination,  \* deep_merge's destination: the dictionary merged into, in place
    merge_calls,   \* number of deep_merge(source, destination) calls made
    merge_raised   \* the last of them raised

mergeVars == <<merge_source, merge_destination, merge_calls, merge_raised>>

VARIABLES
    eco,           \* economy command -> its locals and its position
    drop           \* the DropView of the money drop in the channel

economyVars == <<eco, drop>>

VARIABLES
    wheel          \* a RouletteGame, and the result get_winnings was called with

vars == <<supabase, SERVER_CONFIG_CACHE, ECONOMY_CACHE, now, ncalls, active_games, cmd,
          stale, timeout_tasks, merge_source, merge_destination, merge_calls,
          merge_raised, eco, drop, wheel>>

(* 'last_work': None / an absent cache entry: no timestamp *)
NoTime == -1

NoEntry == [updated_at |-> NoTime, data |-> <<>>]

IsEntry(e) == e.updated_at # NoTime

(***************************************************************************)
(* The store: a table is a set of rows, a filter an equality conjunction.  *)
(***************************************************************************)
PrimaryKey(table) ==
    IF table = "server_configs" THEN {"guild_id"} ELSE {"guild_id", "user_id"}

KeyOf(table, row) == [k \in PrimaryKey(table) |-> row[k]]

Match(row, conditions) ==
    \A k \in DOMAIN conditions : k \in DOMAIN row /\ row[k] = conditions[k]

Select(rows, conditions) == {r \in rows : Match(r, conditions)}

ApplyAttrs(row, attributes) ==
    [k \in DOMAIN row |-> IF k \in DOMAIN attributes THEN attributes[k] ELSE row[k]]

UpdateRows(rows, attributes, conditions) ==
    {IF Match(r, conditions) THEN ApplyAttrs(r, attributes) ELSE r : r \in rows}

(* The store rejects a write that would leave two rows with one primary key. *)
KeyClash(table, rows, attributes, conditions) ==
    \E r1, r2 \in rows :
        /\ r1 # r2
        /\ KeyOf(table, IF Match(r1, conditions) THEN ApplyAttrs(r1, attributes) ELSE r1)
           = KeyOf(table, IF Match(r2, conditions) THEN ApplyAttrs(r2, attributes) ELSE r2)

(***************************************************************************)
(* A world w is [db, cache, reads]; an outcome adds ok (FALSE: the call    *)
(* raised) and ret (the value returned).  reads counts the select queries  *)
(* the call has sent to the store.                                         *)
(***************************************************************************)
World == [db |-> supabase,
          cache |-> [server_configs |-> SERVER_CONFIG_CACHE, economy |-> ECONOMY_CACHE],
          reads |-> 0]

NoRet == {}

Outcome(w, ok, ret) ==
    [db |-> w.db, cache |-> w.cache, reads |-> w.reads, ok |-> ok, ret |-> ret]

(* response = query.execute() of a select: one more read of the store *)
Read(w) == [db |-> w.db, cache |-> w.cache, reads |-> w.reads + 1]

(* The cache key of data, as a set: empty when data names no key of the table. *)
determine_cache(table, data) ==
    IF table = "server_configs"
    THEN IF "guild_id" \in DOMAIN data THEN {data.guild_id} ELSE {}
    ELSE IF {"guild_id", "user_id"} \subseteq DOMAIN data
         THEN {<<data.guild_id, data.user_id>>}
         ELSE {}

cache_upsert(cache, table, data, t) ==
    [cache EXCEPT ![table] =
        [k \in DOMAIN cache[table] |->
            IF k \in determine_cache(table, data)
            THEN [updated_at |-> t, data |-> data]
            ELSE cache[table][k]]]

(* for record in data: cache_upsert(table, record) *)
cache_upsert_all(cache, table, rows, t) ==
    [cache EXCEPT ![table] =
        [k \in DOMAIN cache[table] |->
            IF \E r \in rows : k \in determine_cache(table, r)
            THEN [updated_at |-> t,
                  data |-> CHOOSE r \in rows : k \in determine_cache(table, r)]
            ELSE cache[table][k]]]

(* A lookup that still serves an entry whose age is exactly TTL. *)
CacheRetrieveLate(cache, table, conditions, t) ==
    {cache[table][k].data :
        k \in {k \in determine_cache(table, conditions) \cap DOMAIN cache[table] :
                  /\ IsEntry(cache[table][k])
                  /\ t - cache[table][k].updated_at <= TTL}}

cache_retrieve(cache, table, conditions, t) ==
    {cache[table][k].data :
        k \in {k \in determine_cache(table, conditions) \cap DOMAIN cache[table] :
                  /\ IsEntry(cache[table][k])
                  /\ t - cache[table][k].updated_at < TTL}}

cache_delete(cache, table, conditions) ==
    [cache EXCEPT ![table] =
        [k \in DOMAIN cache[table] |->
            IF k \in determine_cache(table, conditions) THEN NoEntry ELSE cache[table][k]]]

create(w, table, data, f, t) ==
    IF "insert" \in f \/ (\E r \in w.db[table] : KeyOf(table, r) = KeyOf(table, data))
    THEN Outcome(w, FALSE, NoRet)
    ELSE Outcome([db |-> [w.db EXCEPT ![table] = @ \cup {data}],
                  cache |-> cache_upsert(w.cache, table, data, t),
                  reads |-> w.reads], TRUE, NoRet)

retrieve(w, table, conditions, f, t) ==
    LET data == cache_retrieve(w.cache, table, conditions, t) IN
    IF data # {} THEN Outcome(w, TRUE, data)
    ELSE IF "select" \in f THEN Outcome(Read(w), FALSE, {})
    ELSE LET rows == Select(w.db[table], conditions) IN
         Outcome([db |-> w.db, cache |-> cache_upsert_all(w.cache, table, rows, t),
                  reads |-> w.reads + 1],
                 TRUE, rows)

update(w, table, attributes, conditions, f, t) ==
    IF "update" \in f \/ KeyClash(table, w.db[table], attributes, conditions)
    THEN Outcome(w, FALSE, NoRet)
    ELSE LET rows == UpdateRows(w.db[table], attributes, conditions)
             db2 == [w.db EXCEPT ![table] = rows]
         IN  IF "refresh" \in f
             THEN \* the select raised before data was assigned: nothing is deleted
                  Outcome([db |-> db2, cache |-> w.cache, reads |-> w.reads + 1],
                          TRUE, NoRet)
             ELSE Outcome([db |-> db2,
                           cache |-> cache_upsert_all(w.cache, table,
                                                      Select(rows, conditions), t),
                           reads |-> w.reads + 1],
                          TRUE, NoRet)

DefaultServerConfig(guild_id) ==
    [guild_id |-> guild_id, prefix |-> "-", economy |-> DEFAULT_ECONOMY_CONFIG,
     moneydrop |-> DEFAULT_MONEY_DROP_CONFIG]

(* return value of a call whose last store operation ended in outcome r *)
Returning(r, ret) == Outcome(r, r.ok, ret)

(* get_server_config once retrieve has ended in res *)
ServerConfigFrom(res, guild_id, f, t) ==
    IF ~res.ok THEN res
    ELSE IF res.ret # {} THEN Outcome(res, TRUE, CHOOSE d \in res.ret : TRUE)
    ELSE Returning(create(res, "server_configs", DefaultServerConfig(guild_id), f, t),
                   DefaultServerConfig(guild_id))

get_server_config(w, guild_id, f, t) ==
    ServerConfigFrom(retrieve(w, "server_configs", [guild_id |-> guild_id], f, t),
                     guild_id, f, t)

(* The record get_user_economy_data creates for a user it does not find. *)
NewEconomyData(guild_id, user_id, starting_balance) ==
    [guild_id |-> guild_id, user_id |-> user_id, balance |-> starting_balance,
     last_work |-> NoTime, last_steal |-> NoTime, participant |-> FALSE,
     tiktok |-> DEFAULT_TIKTOK_DATA]

(* A creation that takes the balance from DEFAULT_ECONOMY_CONFIG whatever  *)
(* the guild has configured.                                               *)
CreateWithDefaultBalance(server_config, guild_id, user_id, f, t) ==
    IF ~server_config.ok THEN server_config
    ELSE Returning(create(server_config, "economy",
                          NewEconomyData(guild_id, user_id,
                                         DEFAULT_ECONOMY_CONFIG.starting_balance), f, t),
                   NewEconomyData(guild_id, user_id,
                                  DEFAULT_ECONOMY_CONFIG.starting_balance))

(* get_user_economy_data once get_server_config has ended in server_config *)
CreateEconomyData(server_config, guild_id, user_id, f, t) ==
    IF ~server_config.ok THEN server_config
    ELSE Returning(create(server_config, "economy",
                          NewEconomyData(guild_id, user_id,
                                         server_config.ret.economy.starting_balance), f, t),
                   NewEconomyData(guild_id, user_id,
                                  server_config.ret.economy.starting_balance))

(* get_user_economy_data once retrieve has ended in res *)
EconomyDataFrom(res, guild_id, user_id, f, t) ==
    IF ~res.ok THEN res
    ELSE IF res.ret # {} THEN Outcome(res, TRUE, CHOOSE d \in res.ret : TRUE)
    ELSE CreateEconomyData(get_server_config(res, guild_id, f, t), guild_id, user_id, f, t)

get_user_economy_data(w, guild_id, user_id, f, t) ==
    EconomyDataFrom(retrieve(w, "economy", [guild_id |-> guild_id, user_id |-> user_id],
                             f, t),
                    guild_id, user_id, f, t)

(* ---- deep_merge ------------------------------------------------------- *)
(* A value of a document is a leaf [leaf |-> x], x a scalar or a list, or  *)
(* a dictionary.  A dictionary that is merged into is [dict |-> f], f the  *)
(* function from its keys to their values; a dictionary that is merged     *)
(* from is [items |-> s], s its (key, value) pairs in the order            *)
(* source.items() gives them.                                              *)
Leaf(x) == [leaf |-> x]

EmptyDict == [dict |-> <<>>]

(* isinstance(value, dict) *)
IsDict(value) == "leaf" \notin DOMAIN value

(* A store that drops a key the dictionary already has. *)
SetOrDropItem(destination, key, value) ==
    IF key \in DOMAIN destination.dict
    THEN [dict |-> [k \in DOMAIN destination.dict \ {key} |-> destination.dict[k]]]
    ELSE [dict |-> (key :> value) @@ destination.dict]

(* destination[key] = value *)
SetItem(destination, key, value) == [dict |-> (key :> value) @@ destination.dict]

(* node = destination.setdefault(key, {}) *)
SetDefault(destination, key) ==
    IF key \in DOMAIN destination.dict THEN destination.dict[key] ELSE EmptyDict

(* The loop of deep_merge over the items of source that are left.  The     *)
(* outcome is [ok, doc]: doc is destination as the call leaves it, ok is   *)
(* FALSE when the call raised (an item is stored into a destination that   *)
(* is no dictionary).                                                      *)
RECURSIVE MergeItems(_, _)

(* The loop once deep_merge(value, node) has ended in node. *)
MergeNode(items, destination, key, node) ==
    IF node.ok THEN MergeItems(items, SetItem(destination, key, node.doc))
    ELSE [ok |-> FALSE, doc |-> SetItem(destination, key, node.doc)]

MergeItems(items, destination) ==
    IF items = <<>> THEN [ok |-> TRUE, doc |-> destination]
    ELSE IF ~IsDict(destination) THEN [ok |-> FALSE, doc |-> destination]
    ELSE IF IsDict(Head(items).value)
    THEN MergeNode(Tail(items), destination, Head(items).key,
                   MergeItems(Head(items).value.items,
                              SetDefault(destination, Head(items).key)))
    ELSE MergeItems(Tail(items), SetItem(destination, Head(items).key, Head(items).value))

deep_merge(source, destination) == MergeItems(source.items, destination)

(* The sections of a configuration are records of scalars: the same        *)
(* documents as dictionaries of leaves.                                    *)
RECURSIVE ItemsOf(_, _)
ItemsFrom(data, keys, key) ==
    <<[key |-> key, value |-> Leaf(data[key])]>> \o ItemsOf(data, keys \ {key})

ItemsOf(data, keys) ==
    IF keys = {} THEN <<>> ELSE ItemsFrom(data, keys, CHOOSE key \in keys : TRUE)

AsSource(data) == [items |-> ItemsOf(data, DOMAIN data)]

AsDict(data) == [dict |-> [key \in DOMAIN data |-> Leaf(data[key])]]

AsRecord(doc) == [key \in DOMAIN doc.dict |-> doc.dict[key].leaf]

(* A merge into the section of the document the lookup returned, which is *)
(* the document the cache holds, and not into a copy of it.                *)
MergedInPlace(current_config, update_data, key, value) ==
    IF ~current_config.ok THEN current_config
    ELSE Outcome([db |-> current_config.db,
                  cache |-> cache_upsert(current_config.cache,
                               IF "user_id" \in DOMAIN current_config.ret
                               THEN "economy" ELSE "server_configs",
                               (key :> AsRecord(deep_merge(AsSource(value),
                                                   AsDict(current_config.ret[key])).doc))
                               @@ current_config.ret, 0),
                  reads |-> current_config.reads],
                 TRUE,
                 (key :> AsRecord(deep_merge(AsSource(value),
                                             AsDict(current_config.ret[key])).doc))
                 @@ update_data)

(* update_data[key] = deep_merge(value, deepcopy(current_config[key])) *)
MergedSection(current_config, update_data, key, value) ==
    IF ~current_config.ok THEN current_config
    ELSE Outcome(current_config, TRUE,
                 (key :> AsRecord(deep_merge(AsSource(value),
                                             AsDict(current_config.ret[key])).doc))
                 @@ update_data)

(* ---- record updates --------------------------------------------------- *)
(* The keys of data that update_user_economy copies as they are. *)
PlainEconomy(data) == [key \in DOMAIN data \ {"tiktok"} |-> data[key]]

(* The turn of the loop over data.items() for the key tiktok; acc.ret is   *)
(* update_data so far.                                                     *)
WithTiktok(acc, guild_id, user_id, data, f, t) ==
    IF ~acc.ok \/ "tiktok" \notin DOMAIN data THEN acc
    ELSE MergedSection(get_user_economy_data(acc, guild_id, user_id, f, t), acc.ret,
                       "tiktok", data.tiktok)

(* if update_data: update("economy", update_data): the call passes no      *)
(* conditions.                                                             *)
StoreEconomy(acc, f, t) ==
    IF ~acc.ok THEN acc
    ELSE IF DOMAIN acc.ret = {} THEN Outcome(acc, TRUE, NoRet)
    ELSE update(acc, "economy", acc.ret, <<>>, f, t)

update_user_economy(w, guild_id, user_id, data, f, t) ==
    StoreEconomy(WithTiktok(Outcome(w, TRUE, PlainEconomy(data)), guild_id, user_id,
                            data, f, t), f, t)

(* An append that drops the entries the ledger held. *)
LogOverwriting(w, guild_id, user_id, action, amount, type, target_user_id, f, t) ==
    IF "log" \in f THEN Outcome(w, FALSE, NoRet)
    ELSE Outcome([db |-> [w.db EXCEPT !.economy_logs =
                            <<[action |-> action, amount |-> amount, type |-> type,
                               target_user_id |-> target_user_id,
                               guild_id |-> guild_id, user_id |-> user_id,
                               timestamp |-> t]>>],
                  cache |-> w.cache, reads |-> w.reads], TRUE, NoRet)

log_economy_action(w, guild_id, user_id, action, amount, type, target_user_id, f, t) ==
    IF "log" \in f THEN Outcome(w, FALSE, NoRet)
    ELSE Outcome([db |-> [w.db EXCEPT !.economy_logs =
                            Append(@, [action |-> action, amount |-> amount, type |-> type,
                                       target_user_id |-> target_user_id,
                                       guild_id |-> guild_id, user_id |-> user_id,
                                       timestamp |-> t])],
                  cache |-> w.cache, reads |-> w.reads], TRUE, NoRet)

(* An append that is made again after it failed. *)
LogBalanceRetried(upd, new_balance, guild_id, user_id, change, action, type, target_user_id, f, t) ==
    IF ~upd.ok THEN upd
    ELSE Returning(log_economy_action(upd, guild_id, user_id, action, change, type,
                                      target_user_id, {}, t),
                   new_balance)

(* update_user_balance once update_user_economy has ended in upd *)
LogBalance(upd, new_balance, guild_id, user_id, change, action, type, target_user_id, f, t) ==
    IF ~upd.ok THEN upd
    ELSE Returning(log_economy_action(upd, guild_id, user_id, action, change, type,
                                      target_user_id, f, t),
                   new_balance)

(* update_user_balance once get_user_economy_data has ended in user_data *)
StoreBalance(user_data, guild_id, user_id, change, action, type, target_user_id, f, t) ==
    IF ~user_data.ok THEN user_data
    ELSE LogBalance(update_user_economy(user_data, guild_id, user_id,
                                        [balance |-> user_data.ret.balance + change,
                                         participant |-> TRUE], f, t),
                    user_data.ret.balance + change,
                    guild_id, user_id, change, action, type, target_user_id, f, t)

update_user_balance(w, guild_id, user_id, change, action, type, target_user_id, f, t) ==
    StoreBalance(get_user_economy_data(w, guild_id, user_id, f, t),
                 guild_id, user_id, change, action, type, target_user_id, f, t)

(* ---- configuration updates ------------------------------------------- *)
(* The keys of data that update_server_config copies as they are. *)
PlainData(data) == [key \in DOMAIN data \ {"economy", "moneydrop"} |-> data[key]]

(* One turn of the loop over data.items() for a section key; acc.ret is    *)
(* update_data so far.                                                     *)
WithSection(acc, guild_id, data, key, f, t) ==
    IF ~acc.ok \/ key \notin DOMAIN data THEN acc
    ELSE MergedSection(get_server_config(acc, guild_id, f, t), acc.ret, key, data[key])

(* if update_data: update_data["guild_id"] = str(guild_id);                *)
(* update("server_configs", update_data): the call passes no conditions.   *)
StoreServerConfig(acc, guild_id, f, t) ==
    IF ~acc.ok THEN acc
    ELSE IF DOMAIN acc.ret = {} THEN Outcome(acc, TRUE, NoRet)
    ELSE update(acc, "server_configs", [guild_id |-> guild_id] @@ acc.ret, <<>>, f, t)

update_server_config(w, guild_id, data, f, t) ==
    StoreServerConfig(
        WithSection(WithSection(Outcome(w, TRUE, PlainData(data)),
                                guild_id, data, "economy", f, t),
                    guild_id, data, "moneydrop", f, t),
        guild_id, f, t)

(* ---- several users at once ------------------------------------------- *)
(* The rows the per-id cache lookups of get_multiple_user_economy_data put *)
(* in result.                                                              *)
CachedUsers(w, guild_id, user_ids, t) ==
    UNION {cache_retrieve(w.cache, "economy", [guild_id |-> guild_id, user_id |-> u], t) :
              u \in user_ids}

(* get_multiple_user_economy_data once the cache has given result and     *)
(* left user_ids_to_fetch.                                                 *)
FetchUsers(w, guild_id, user_ids, result, user_ids_to_fetch, f, t) ==
    IF user_ids = {} \/ user_ids_to_fetch # {}
    THEN IF "select" \in f THEN Outcome(Read(w), FALSE, {})
         ELSE Outcome([db |-> w.db,
                       cache |-> cache_upsert_all(w.cache, "economy",
                                    {r \in w.db.economy :
                                        /\ r.guild_id = guild_id
                                        /\ user_ids_to_fetch # {} => r.user_id \in user_ids_to_fetch}, t),
                       reads |-> w.reads + 1],
                      TRUE,
                      result \cup {r \in w.db.economy :
                                      /\ r.guild_id = guild_id
                                      /\ user_ids_to_fetch # {} => r.user_id \in user_ids_to_fetch})
    ELSE Outcome(w, TRUE, {})

get_multiple_user_economy_data(w, guild_id, user_ids, f, t) ==
    FetchUsers(w, guild_id, user_ids, CachedUsers(w, guild_id, user_ids, t),
               user_ids \ {r.user_id : r \in CachedUsers(w, guild_id, user_ids, t)}, f, t)

(***************************************************************************)
(* The data layer called directly: any caller, any arguments.              *)
(***************************************************************************)
MaxCalls == 2
MaxTicks == 1
TickLen == TTL

(* The (guild, user) pairs the callers name: two users of one guild, and a *)
(* user of another guild.                                                  *)
CallKeys == {<<"g1", "u1">>, <<"g1", "u2">>, <<"g2", "u1">>}

(* The arguments of update_user_balance the callers pass. *)
Requests ==
    {[change |-> 500, action |-> "work", type |-> "USER", target_user_id |-> None],
     [change |-> -100, action |-> "steal_fail", type |-> "USER", target_user_id |-> "u2"],
     [change |-> 0, action |-> "blackjack_push", type |-> "BOT", target_user_id |-> None]}

EmptyDb == [server_configs |-> {}, economy |-> {}, economy_logs |-> <<>>]

DataInit ==
    /\ supabase = EmptyDb
    /\ SERVER_CONFIG_CACHE = [g \in Guilds |-> NoEntry]
    /\ ECONOMY_CACHE = [k \in Keys |-> NoEntry]
    /\ now = 0
    /\ ncalls = 0

(* The tables and caches after a call that ended in outcome r. *)
Commit(r) ==
    /\ supabase' = r.db
    /\ SERVER_CONFIG_CACHE' = r.cache.server_configs
    /\ ECONOMY_CACHE' = r.cache.economy

CallGetUserEconomyData(g, u, f) ==
    /\ ncalls < MaxCalls
    /\ Commit(get_user_economy_data(World, g, u, f, now))
    /\ ncalls' = ncalls + 1
    /\ UNCHANGED <<now, active_games, cmd, stale, timeout_tasks, mergeVars, economyVars, wheel>>

CallUpdateUserEconomy(g, u, f) ==
    /\ ncalls < MaxCalls
    /\ Commit(update_user_economy(World, g, u, [last_work |-> now], f, now))
    /\ ncalls' = ncalls + 1
    /\ UNCHANGED <<now, active_games, cmd, stale, timeout_tasks, mergeVars, economyVars, wheel>>

CallUpdateUserBalance(g, u, req, f) ==
    /\ ncalls < MaxCalls
    /\ Commit(update_user_balance(World, g, u, req.change, req.action, req.type,
                                  req.target_user_id, f, now))
    /\ ncalls' = ncalls + 1
    /\ UNCHANGED <<now, active_games, cmd, stale, timeout_tasks, mergeVars, economyVars, wheel>>

Tick ==
    /\ now < MaxTicks * TickLen
    /\ now' = now + TickLen
    /\ UNCHANGED <<supabase, SERVER_CONFIG_CACHE, ECONOMY_CACHE, ncalls>>
    /\ UNCHANGED <<active_games, cmd, stale, timeout_tasks, mergeVars, economyVars, wheel>>

(* The data the link and verify commands pass to update_user_economy. *)
TiktokUpdates ==
    {[tiktok |-> [username |-> "name", code |-> "BowBot-1", code_expires |-> 3600,
                  link |-> "link"]],
     [tiktok |-> [code |-> None, id |-> "id", code_expires |-> -1]]}

CallUpdateUserTiktok(g, u, data, f) ==
    /\ ncalls < MaxCalls
    /\ Commit(update_user_economy(World, g, u, data, f, now))
    /\ ncalls' = ncalls + 1
    /\ UNCHANGED <<now, active_games, cmd, stale, timeout_tasks, mergeVars, economyVars, wheel>>

CallGetMultipleUserEconomyData(g, user_ids, f) ==
    /\ ncalls < MaxCalls
    /\ Commit(get_multiple_user_economy_data(World, g, user_ids, f, now))
    /\ ncalls' = ncalls + 1
    /\ UNCHANGED <<now, active_games, cmd, stale, timeout_tasks, mergeVars, economyVars, wheel>>

CallGetServerConfig(g, f) ==
    /\ ncalls < MaxCalls
    /\ Commit(get_server_config(World, g, f, now))
    /\ ncalls' = ncalls + 1
    /\ UNCHANGED <<now, active_games, cmd, stale, timeout_tasks, mergeVars, economyVars, wheel>>

CallUpdateServerConfig(g, data, f) ==
    /\ ncalls < MaxCalls
    /\ Commit(update_server_config(World, g, data, f, now))
    /\ ncalls' = ncalls + 1
    /\ UNCHANGED <<now, active_games, cmd, stale, timeout_tasks, mergeVars, economyVars, wheel>>

DataNext ==
    \/ \E k \in CallKeys, f \in {{}, {"select"}, {"insert"}} :
          CallGetUserEconomyData(k[1], k[2], f)
    \/ \E g \in Guilds, user_ids \in SUBSET Users, f \in {{}, {"select"}} :
          CallGetMultipleUserEconomyData(g, user_ids, f)
    \/ \E k \in CallKeys, f \in {{}, {"update"}, {"refresh"}} :
          CallUpdateUserEconomy(k[1], k[2], f)
    \/ \E k \in CallKeys, req \in Requests, f \in FaultSets :
          CallUpdateUserBalance(k[1], k[2], req, f)
    \/ Tick


(***************************************************************************)
(* The game commands.  A command c is one invocation of a handler by a     *)
(* user; the message it sends for its game is message c.                   *)
(***************************************************************************)
Cmds == 1 .. 2
GameGuild == "g1"
GameUsers == {"u1"}
Handlers == {"Blackjack.blackjack", "Roulette.roulette", "Casino.roulette", "Casino.blackjack"}
Cogs == {"Blackjack", "Roulette", "Casino"}

CogOf(h) == IF h = "Blackjack.blackjack" THEN "Blackjack"
            ELSE IF h = "Roulette.roulette" THEN "Roulette" ELSE "Casino"

IsBlackjack(h) == h \in {"Blackjack.blackjack", "Casino.blackjack"}

(* The store failures a game command meets: a read or a write that raises. *)
GameFaults == {{}, {"select"}, {"update"}}

(* The hits a player asks for in one game. *)
MaxHits == 1

(* Stale view timers and suspended on_timeout tasks a registry may carry. *)
MaxPending == 1

(* An active_games entry: no key, the value None, or a message. *)
Absent == [in |-> FALSE, msg |-> 0]
Reserved == [in |-> TRUE, msg |-> 0]
Prompt(c) == [in |-> TRUE, msg |-> c]

(* if user_id in self.active_games: self.active_games.pop(user_id) *)
Pop(ag, cog, u) == [ag EXCEPT ![cog][u] = Absent]

(* The entry that makes a handler refuse to start. *)
Rejects(h, entry) ==
    IF h \in {"Blackjack.blackjack", "Casino.blackjack"}
    THEN entry.in /\ entry.msg # 0
    ELSE entry.in

(* The handlers that put the None marker in the registry on entry. *)
Reserves(h) == h # "Roulette.roulette"

(* A refusal that passed through the cleanup of the try block. *)
RejectInsideTry(ag, cog, u) == Pop(ag, cog, u)

(* The registry after a handler refused to start and returned: the return  *)
(* comes before the try, so the finally block does not run.                *)
AfterReject(ag, cog, u) == ag

(* ---- amounts --------------------------------------------------------- *)
BetStrs == {[kind |-> "all", n |-> 0], [kind |-> "int", n |-> 100],
            [kind |-> "percent", n |-> 150], [kind |-> "int", n |-> 0],
            [kind |-> "int", n |-> 5000], [kind |-> "text", n |-> 0]}

(* amount_str_to_int: ok is FALSE where it raises commands.BadArgument. *)
amount_str_to_int(amount_str, balance) ==
    IF amount_str.kind = "all" THEN [ok |-> TRUE, value |-> balance]
    ELSE IF amount_str.kind = "percent"
         THEN IF ~(0 < amount_str.n /\ amount_str.n <= 100)
              THEN [ok |-> FALSE, value |-> 0]
              ELSE [ok |-> TRUE, value |-> (balance * amount_str.n) \div 100]
         ELSE IF amount_str.kind = "int" THEN [ok |-> TRUE, value |-> amount_str.n]
              ELSE [ok |-> FALSE, value |-> 0]

(* ---- blackjack hands -------------------------------------------------- *)
Ranks == {"K", "A"}

(* A hand: how many cards of each rank it holds. *)
EmptyHand == [r \in Ranks |-> 0]
AddCard(hand, r) == [hand EXCEPT ![r] = @ + 1]
TwoCardHands == {AddCard(AddCard(EmptyHand, r1), r2) : r1, r2 \in Ranks}

get_card_value(rank) == IF rank = "K" THEN 10 ELSE 11

RECURSIVE AdjustAces(_, _)
AdjustAces(value, num_aces) ==
    IF value > 21 /\ num_aces > 0 THEN AdjustAces(value - 10, num_aces - 1) ELSE value

get_hand_value(hand) ==
    AdjustAces(hand["K"] * get_card_value("K") + hand["A"] * get_card_value("A"), hand["A"])

(* suits = ['♠️', '♥️', '♦️', '♣️']: the deck holds each rank four times. *)
SuitsPerRank == 4

(* deal_card: the ranks the deck still holds once both hands were dealt. *)
deal_card(player_hand, dealer_hand) ==
    {r \in Ranks : player_hand[r] + dealer_hand[r] < SuitsPerRank}

(* while get_hand_value(dealer_hand) < 17: dealer_hand.append(deal_card()) *)
RECURSIVE DealerPlays(_, _)
DealerPlays(player_hand, dealer_hand) ==
    IF get_hand_value(dealer_hand) < 17
    THEN UNION {DealerPlays(player_hand, AddCard(dealer_hand, r)) :
                    r \in deal_card(player_hand, dealer_hand)}
    ELSE {dealer_hand}

(* int(bet * 1.5) *)
BlackjackWinnings(bet) == (bet * 3) \div 2

(* ---- roulette --------------------------------------------------------- *)
ROULETTE_NUMBERS ==
    [n \in 0 .. 36 |->
        IF n = 0 THEN "green"
        ELSE IF n \in {1, 3, 5, 7, 9, 12, 14, 16, 18, 19, 21, 23, 25, 27, 30, 32, 34, 36}
             THEN "red" ELSE "black"]

PAYOUTS == [single |-> 35, color |-> 1, parity |-> 1, dozen |-> 2, row |-> 2]

(* A bet choice: a word (colour, parity), a number (dozen, row, single), or None. *)
NoChoice == [word |-> None, num |-> 0, none |-> TRUE]
Word(s) == [word |-> s, num |-> 0, none |-> FALSE]
Num(n) == [word |-> None, num |-> n, none |-> FALSE]

Choices(bet_type) ==
    IF bet_type = "color" THEN {Word("red"), Word("black")}
    ELSE IF bet_type = "parity" THEN {Word("even"), Word("odd")}
    ELSE {Num(1), Num(2), Num(3)}

Categories == {"color", "parity", "dozen", "row"}

(* The numbers the wheel stops on, and the numbers a player types. *)
SpinNumbers == {0, 14}
TypedNumbers == {0, 14}

(* get_winnings: ok is FALSE where the arithmetic on a None choice raises. *)
get_winnings(h, bet, bet_type, bet_choice, winning_number) ==
    LET winning_color == ROULETTE_NUMBERS[winning_number]
        lose == [ok |-> TRUE, value |-> 0 - bet]
        raise == [ok |-> FALSE, value |-> 0]
        win(k) == [ok |-> TRUE, value |-> bet * PAYOUTS[k]]
    IN  IF bet_type = "single"
        THEN IF ~bet_choice.none /\ winning_number = bet_choice.num THEN win("single") ELSE lose
        ELSE IF bet_type = "color"
        THEN IF ~bet_choice.none /\ winning_color = bet_choice.word THEN win("color") ELSE lose
        ELSE IF bet_type = "parity"
        THEN IF winning_number # 0
                /\ \/ bet_choice.word = "even" /\ winning_number % 2 = 0
                   \/ bet_choice.word = "odd" /\ winning_number % 2 # 0
             THEN win("parity") ELSE lose
        ELSE IF bet_type = "dozen"
        THEN IF winning_number = 0 THEN lose
             ELSE IF bet_choice.none THEN raise
             ELSE IF (bet_choice.num - 1) * 12 < winning_number
                     /\ winning_number <= bet_choice.num * 12
                  THEN win("dozen") ELSE lose
        ELSE IF bet_type = "row" /\ h = "Casino.roulette"
        THEN IF winning_number = 0 THEN lose
             ELSE IF bet_choice.none THEN raise
             ELSE IF winning_number % 3 = bet_choice.num % 3 THEN win("row") ELSE lose
        ELSE lose

(* The ledger action a roulette handler records. *)
RouletteAction(h, winnings) ==
    IF h = "Roulette.roulette" THEN "roulette_game"
    ELSE IF winnings > 0 THEN "roulette_won" ELSE "roulette_loss"

(* ---- command records -------------------------------------------------- *)
(* A view: its timer runs (live), the action a button set, a button        *)
(* callback waiting in defer (cb), and what wait() returned (done).        *)
NewView == [live |-> FALSE, action |-> None, cb |-> FALSE, done |-> "no"]

IdleCmd ==
    [pc |-> "idle", handler |-> None, user |-> None, bet |-> 0,
     player_hand |-> EmptyHand, dealer_hand |-> EmptyHand,
     view |-> NewView, msg |-> "no", action |-> None,
     bet_type |-> None, bet_choice |-> NoChoice, numwait |-> FALSE,
     winnings |-> 0, left |-> 0, hits |-> 0,
     admitted |-> FALSE, rejected |-> FALSE, balance_calls |-> 0, first |-> "none",
     last_race |-> "none"]

(* The record once the locals of the game are dead: what is kept is the    *)
(* handler, its user, and the history of the session.                      *)
Dead(rec) ==
    [IdleCmd EXCEPT !.pc = rec.pc, !.handler = rec.handler, !.user = rec.user,
                    !.admitted = rec.admitted, !.rejected = rec.rejected,
                    !.balance_calls = rec.balance_calls,
                    !.last_race = rec.last_race]

(* The record of a command that has returned. *)
Returned(rec) ==
    [IdleCmd EXCEPT !.pc = "done", !.handler = rec.handler, !.user = rec.user,
                    !.admitted = rec.admitted, !.rejected = rec.rejected]

GameInit ==
    /\ active_games = [cog \in Cogs |-> [u \in GameUsers |-> Absent]]
    /\ cmd = [c \in Cmds |-> IdleCmd]
    /\ stale = [cog \in Cogs |-> [u \in GameUsers |-> 0]]
    /\ timeout_tasks = [cog \in Cogs |-> [u \in GameUsers |-> [cur |-> 0, stale |-> 0]]]

(* No merge under way: an empty source and an empty destination. *)
MergeIdle ==
    /\ merge_source = [items |-> <<>>]
    /\ merge_destination = [dict |-> <<>>]
    /\ merge_calls = 0
    /\ merge_raised = FALSE

(* The economy commands in flight: an invocation of work, steal or give.   *)
EcoCmds == 1 .. 2

(* posts: the money-log posts the command has still to make; log_channel:  *)
(* the local log_channel_id.                                               *)
IdleEco ==
    [pc |-> "idle", command |-> None, user |-> None, member |-> None,
     log_channel |-> None, posts |-> 0]

(* No DropView has been built.  press: where the claim_button callback of  *)
(* each user stands; calls: the update_user_balance calls of the drop.     *)
NoDrop ==
    [made |-> FALSE, live |-> FALSE, claimed |-> FALSE, amount |-> 0,
     press |-> [u \in Users |-> "idle"], calls |-> 0]

EconomyIdle ==
    /\ eco = [c \in EcoCmds |-> IdleEco]
    /\ drop = NoDrop

(* No RouletteGame has been built. *)
NoWheel ==
    [handler |-> None, bet |-> 0, bet_type |-> None, bet_choice |-> NoChoice,
     spun |-> FALSE, number |-> 0, winnings |-> 0]

WheelIdle == wheel = NoWheel

Init == DataInit /\ GameInit /\ MergeIdle /\ EconomyIdle /\ WheelIdle

SpecData == Init /\ [][DataNext]_vars

(***************************************************************************)
(* Balance changes among lookups and record updates: the store fails only  *)
(* the append to the ledger or the select that refreshes the cache.        *)
(***************************************************************************)
LedgerFaults == {{}, {"log"}, {"refresh"}}

(* Two users of one guild; a payment and a penalty. *)
LedgerKeys == {<<"g1", "u1">>, <<"g1", "u2">>}
LedgerRequests == {req \in Requests : req.change # 0}

LedgerNext ==
    \/ \E k \in LedgerKeys : CallGetUserEconomyData(k[1], k[2], {})
    \/ \E g \in Guilds, user_ids \in SUBSET Users :
          CallGetMultipleUserEconomyData(g, user_ids, {})
    \/ \E k \in LedgerKeys : CallUpdateUserEconomy(k[1], k[2], {})
    \/ \E k \in LedgerKeys, req \in LedgerRequests, f \in LedgerFaults :
          CallUpdateUserBalance(k[1], k[2], req, f)
    \/ Tick

SpecLedger == Init /\ [][LedgerNext]_vars

(***************************************************************************)
(* The configuration of the guilds: lookups and updates by any caller,     *)
(* and the economy lookups that read it.                                   *)
(***************************************************************************)
(* The data callers pass to update_server_config. *)
ConfigUpdates ==
    {[prefix |-> "!"],
     [economy |-> [work_min_amount |-> 10]],
     [economy |-> [work_max_amount |-> 900]],
     [moneydrop |-> [max_amount |-> 200]],
     [economy |-> [starting_balance |-> 500]]}

ConfigNext ==
    \/ \E g \in Guilds, f \in {{}, {"select"}, {"insert"}} : CallGetServerConfig(g, f)
    \/ \E g \in Guilds, data \in ConfigUpdates, f \in FaultSets \ {{"log"}} :
          CallUpdateServerConfig(g, data, f)
    \/ \E k \in CallKeys, f \in {{}, {"select"}, {"insert"}} :
          CallGetUserEconomyData(k[1], k[2], f)
    \/ Tick

SpecConfig == Init /\ [][ConfigNext]_vars

(***************************************************************************)
(* A store that already holds configurations when the bot starts: rows     *)
(* written before, some with an economy document that has fewer keys than  *)
(* DEFAULT_ECONOMY_CONFIG has now.                                         *)
(***************************************************************************)
StoredEconomies ==
    {DEFAULT_ECONOMY_CONFIG,
     [starting_balance |-> 500],
     [starting_balance |-> 500, work_min_amount |-> 20, log_channel |-> None]}

StoredConfigs(g) ==
    {[guild_id |-> g, prefix |-> p, economy |-> e, moneydrop |-> DEFAULT_MONEY_DROP_CONFIG] :
        p \in {"-", "!"}, e \in StoredEconomies}

(* No row or one row for a guild. *)
StoredRows(g) == {{}} \cup {{c} : c \in StoredConfigs(g)}

StoredTables ==
    {UNION {rows[g] : g \in Guilds} :
        rows \in {r \in [Guilds -> UNION {StoredRows(g) : g \in Guilds}] :
                     \A g \in Guilds : r[g] \in StoredRows(g)}}

StoredInit ==
    /\ supabase \in {[EmptyDb EXCEPT !.server_configs = table] : table \in StoredTables}
    /\ SERVER_CONFIG_CACHE = [g \in Guilds |-> NoEntry]
    /\ ECONOMY_CACHE = [k \in Keys |-> NoEntry]
    /\ now = 0
    /\ ncalls = 0
    /\ GameInit
    /\ MergeIdle
    /\ EconomyIdle /\ WheelIdle

StoredNext ==
    \/ \E g \in Guilds, f \in {{}, {"select"}, {"insert"}} : CallGetServerConfig(g, f)
    \/ \E g \in Guilds, data \in ConfigUpdates, f \in FaultSets \ {{"log"}} :
          CallUpdateServerConfig(g, data, f)
    \/ Tick

SpecStored == StoredInit /\ [][StoredNext]_vars

(***************************************************************************)
(* deep_merge called on documents of any shape: leaves and dictionaries    *)
(* nested one level, under two keys.                                       *)
(***************************************************************************)
MaxMerges == 2

MergeKeys == {"a", "b"}

(* A scalar and a list. *)
MergeLeaves == {Leaf("1"), Leaf("[2]")}

(* The item lists of the dictionaries with keys in MergeKeys and values in *)
(* values, in every order.                                                 *)
ItemLists(values) ==
    {<<>>}
    \cup {<<[key |-> k, value |-> v]>> : k \in MergeKeys, v \in values}
    \cup {<<[key |-> k[1], value |-> v[1]], [key |-> k[2], value |-> v[2]]>> :
             k \in {k \in MergeKeys \X MergeKeys : k[1] # k[2]}, v \in values \X values}

Dicts(values) ==
    {[dict |-> f] : f \in UNION {[K -> values] : K \in SUBSET MergeKeys}}

MergeSources ==
    {[items |-> s] :
        s \in ItemLists(MergeLeaves \cup {[items |-> n] : n \in ItemLists(MergeLeaves)})}

MergeDestinations == Dicts(MergeLeaves \cup Dicts(MergeLeaves))

MergeInit ==
    /\ merge_source \in MergeSources
    /\ merge_destination \in MergeDestinations
    /\ merge_calls = 0
    /\ merge_raised = FALSE
    /\ DataInit /\ GameInit /\ EconomyIdle /\ WheelIdle

(* deep_merge(source, destination): destination is changed in place. *)
DeepMerge ==
    /\ merge_calls < MaxMerges
    /\ merge_destination' = deep_merge(merge_source, merge_destination).doc
    /\ merge_raised' = ~deep_merge(merge_source, merge_destination).ok
    /\ merge_calls' = merge_calls + 1
    /\ UNCHANGED <<merge_source, dataVars, gameVars, economyVars, wheel>>

SpecMerge == MergeInit /\ [][DeepMerge]_vars

(***************************************************************************)
(* deep_merge and the two functions that call it, update_server_config and *)
(* update_user_economy.                                                    *)
(***************************************************************************)
NestedSources ==
    {[items |-> s] :
        s \in ItemLists({Leaf("1"), [items |-> <<>>],
                         [items |-> <<[key |-> "a", value |-> Leaf("1")]>>]})}

NestedDestinations ==
    Dicts({Leaf("[2]"), [dict |-> [key \in MergeKeys |-> Leaf("[2]")]]})

CopyInit ==
    /\ merge_source \in NestedSources
    /\ merge_destination \in NestedDestinations
    /\ merge_calls = 0
    /\ merge_raised = FALSE
    /\ DataInit /\ GameInit /\ EconomyIdle /\ WheelIdle

(* The calls that merge: one guild's economy section, one user's tiktok    *)
(* section; the store may fail the write.                                  *)
CopyConfigs == {[economy |-> [work_min_amount |-> 10]]}
CopyKeys == {<<"g1", "u1">>}

CopyNext ==
    \/ DeepMerge
    \/ \E k \in CopyKeys : CallGetServerConfig(k[1], {})
    \/ \E k \in CopyKeys, data \in CopyConfigs, f \in {{}, {"update"}} :
          CallUpdateServerConfig(k[1], data, f)
    \/ \E k \in CopyKeys : CallGetUserEconomyData(k[1], k[2], {})
    \/ \E k \in CopyKeys, data \in TiktokUpdates, f \in {{}, {"update"}} :
          CallUpdateUserTiktok(k[1], k[2], data, f)

SpecCopy == CopyInit /\ [][CopyNext]_vars

(***************************************************************************)
(* get_winnings called on a RouletteGame of either module, for every bet   *)
(* the buttons can place and every number of the wheel.                    *)
(***************************************************************************)
WheelBets == {1, 100}

WheelChoices(bet_type) ==
    IF bet_type = "single" THEN {Num(0), Num(14), Num(36)} ELSE Choices(bet_type)

(* RouletteGame(user_id, bet, view.bet_type, view.bet_choice) *)
RouletteGame(h, bet, bet_type, bet_choice) ==
    [NoWheel EXCEPT !.handler = h, !.bet = bet, !.bet_type = bet_type,
                    !.bet_choice = bet_choice]

PayoutInit ==
    /\ wheel \in {RouletteGame(h, bet, bet_type, bet_choice) :
                     h \in {"Roulette.roulette", "Casino.roulette"}, bet \in WheelBets,
                     bet_type \in Categories \cup {"single"},
                     bet_choice \in UNION {WheelChoices(t) : t \in Categories \cup {"single"}}}
    /\ wheel.bet_choice \in WheelChoices(wheel.bet_type)
    /\ DataInit /\ GameInit /\ MergeIdle /\ EconomyIdle

(* winnings = game.get_winnings(result) *)
GetWinnings(winning_number) ==
    /\ ~wheel.spun
    /\ wheel' = [wheel EXCEPT !.spun = TRUE, !.number = winning_number,
                              !.winnings = get_winnings(wheel.handler, wheel.bet,
                                                        wheel.bet_type, wheel.bet_choice,
                                                        winning_number).value]
    /\ UNCHANGED <<dataVars, gameVars, mergeVars, economyVars>>

SpecPayout == PayoutInit /\ [][\E n \in DOMAIN ROULETTE_NUMBERS : GetWinnings(n)]_vars

(* An exit that skips the removal. *)
NoCleanup(ag, cog, u) == ag

(* finally: if user_id in self.active_games: self.active_games.pop(user_id) *)
Finally(ag, cog, u) == Pop(ag, cog, u)

(* A step of a command ends in [w, rec, ag]: the world, the command's      *)
(* record and the registries it leaves.                                    *)
Stay(rec, w, ag) == [w |-> w, rec |-> rec, ag |-> ag]

(* The command leaves through its finally block. *)
Leave(rec, w, ag) ==
    [w |-> w, rec |-> Returned(rec), ag |-> Finally(ag, CogOf(rec.handler), rec.user)]

(* await update_user_balance(...), then `left` more Discord calls before   *)
(* the return.                                                             *)
Settled(rec, ub, ag, left) ==
    IF ~ub.ok \/ left = 0
    THEN Leave(rec, ub, ag)
    ELSE Stay([rec EXCEPT !.pc = "finish", !.left = left], ub, ag)

Settle(rec, w, ag, change, action, f, left) ==
    Settled([Dead(rec) EXCEPT !.balance_calls = @ + 1],
            update_user_balance(w, GameGuild, rec.user, change, action, "BOT", None, f, now),
            ag, left)

Apply(c, res) ==
    /\ Commit(res.w)
    /\ cmd' = [cmd EXCEPT ![c] = res.rec]
    /\ active_games' = res.ag
    /\ UNCHANGED <<now, ncalls>>

(***************************************************************************)
(* The handlers, one action per stretch of code between two suspensions.   *)
(* ok = FALSE is the Discord call the stretch resumes from raising.        *)
(***************************************************************************)
(* An admitted command once get_user_economy_data has ended in user_data:  *)
(* the bet is parsed and validated, and a blackjack hand is dealt.         *)
Admitted(rec, ag, user_data, bet_str, ph, dh, f) ==
    IF ~user_data.ok THEN Leave(rec, user_data, ag)
    ELSE LET balance == user_data.ret.balance
             amount == amount_str_to_int(bet_str, balance)
         IN  IF ~amount.ok \/ amount.value <= 0 \/ amount.value > balance
             THEN Stay([rec EXCEPT !.pc = "invalid"], user_data, ag)
             ELSE IF ~IsBlackjack(rec.handler)
             THEN Stay([rec EXCEPT !.pc = "prompt", !.bet = amount.value], user_data, ag)
             ELSE IF get_hand_value(ph) = 21
             THEN Settle(rec, user_data, ag, BlackjackWinnings(amount.value),
                         "blackjack_win", f, 2)
             ELSE Stay([rec EXCEPT !.pc = "prompt", !.bet = amount.value,
                                   !.player_hand = ph, !.dealer_hand = dh],
                       user_data, ag)

(* The handler's body, entered once the in_allowed_channels check has read *)
(* the guild's configuration (server_config).                              *)
Body(rec, ag, server_config, bet_str, ph, dh, f) ==
    LET cog == CogOf(rec.handler)
        entry == ag[cog][rec.user]
    IN  IF ~server_config.ok THEN Stay(Returned(rec), server_config, ag)
        ELSE IF Rejects(rec.handler, entry)
        THEN \* the roulette message reads .jump_url of the entry: None raises
             Stay(IF entry.msg = 0 THEN Returned([rec EXCEPT !.rejected = TRUE])
                  ELSE [rec EXCEPT !.pc = "reject", !.rejected = TRUE],
                  server_config, AfterReject(ag, cog, rec.user))
        ELSE Admitted([rec EXCEPT !.admitted = TRUE],
                      IF Reserves(rec.handler) THEN [ag EXCEPT ![cog][rec.user] = Reserved]
                      ELSE ag,
                      get_user_economy_data(server_config, GameGuild, rec.user, f, now),
                      bet_str, ph, dh, f)

Invoke(c, h, u, bet_str, ph, dh, f) ==
    /\ cmd[c].pc = "idle"
    /\ \A c2 \in Cmds : c2 < c => cmd[c2].pc # "idle"
    /\ Apply(c, Body([cmd[c] EXCEPT !.handler = h, !.user = u], active_games,
                     get_server_config(World, GameGuild, f, now), bet_str, ph, dh, f))
    /\ UNCHANGED <<stale, timeout_tasks, mergeVars, economyVars, wheel>>

(* The rejection message was sent: the handler returns before its try. *)
RejectSent(c) ==
    /\ cmd[c].pc = "reject"
    /\ Apply(c, Stay(Returned(cmd[c]), World, active_games))
    /\ UNCHANGED <<stale, timeout_tasks, mergeVars, economyVars, wheel>>

(* The invalid-bet message was sent (or failed): return inside the try. *)
InvalidSent(c) ==
    /\ cmd[c].pc = "invalid"
    /\ Apply(c, Leave(cmd[c], World, active_games))
    /\ UNCHANGED <<stale, timeout_tasks, mergeVars, economyVars, wheel>>

(* The prompt with its view was sent: the view's timer starts, the registry *)
(* entry becomes the message, and the handler waits.                       *)
PromptSent(c, ok) ==
    /\ cmd[c].pc = "prompt"
    /\ LET rec == cmd[c]
           cog == CogOf(rec.handler)
       IN  IF ok
           THEN Apply(c, Stay([rec EXCEPT !.pc = "race",
                                          !.view = [NewView EXCEPT !.live = TRUE],
                                          !.msg = "no", !.first = "none",
                                          !.last_race = "none"],
                              World, [active_games EXCEPT ![cog][rec.user] = Prompt(c)]))
           ELSE Apply(c, Leave(rec, World, active_games))
    /\ UNCHANGED <<stale, timeout_tasks, mergeVars, economyVars, wheel>>

(* The player types h or s: message_waiter completes. *)
ChatMessage(c, content) ==
    /\ cmd[c].pc = "race" /\ IsBlackjack(cmd[c].handler)
    /\ cmd[c].msg = "no"
    /\ content = "h" => cmd[c].hits < MaxHits
    /\ stale[CogOf(cmd[c].handler)][cmd[c].user] < MaxPending
    /\ cmd' = [cmd EXCEPT ![c].msg = content,
                          ![c].first = IF @ = "none" THEN "msg" ELSE @]
    /\ UNCHANGED <<dataVars, active_games, stale, timeout_tasks, mergeVars, economyVars, wheel>>

(* The player presses Hit or Stand: the callback sets the action and waits *)
(* in defer().                                                             *)
ButtonPress(c, a) ==
    /\ cmd[c].pc = "race" /\ IsBlackjack(cmd[c].handler)
    /\ cmd[c].view.live /\ ~cmd[c].view.cb
    /\ a = "hit" => cmd[c].hits < MaxHits
    /\ cmd' = [cmd EXCEPT ![c].view.action = a, ![c].view.cb = TRUE]
    /\ UNCHANGED <<dataVars, active_games, stale, timeout_tasks, mergeVars, economyVars, wheel>>

(* defer() returned: self.stop() completes view_waiter. *)
ButtonDeferred(c, ok) ==
    /\ cmd[c].pc = "race" /\ cmd[c].view.cb
    /\ cmd' = [cmd EXCEPT ![c].view.cb = FALSE,
                          ![c].view.live = IF ok THEN FALSE ELSE @,
                          ![c].view.done = IF ok THEN "stopped" ELSE @,
                          ![c].first = IF ok /\ @ = "none" THEN "view" ELSE @]
    /\ UNCHANGED <<dataVars, active_games, stale, timeout_tasks, mergeVars, economyVars, wheel>>

(* on_timeout up to its await: a task is left waiting in message.edit only *)
(* if the player is in the registry.                                       *)
Spawn(tasks, ag, cog, u, origin) ==
    IF ag[cog][u].in THEN [tasks EXCEPT ![cog][u][origin] = @ + 1] ELSE tasks

(* The timer of the view the handler waits on fires. *)
ViewTimeout(c) ==
    /\ cmd[c].pc = "race"
    /\ cmd[c].view.live /\ ~cmd[c].view.cb /\ ~cmd[c].numwait
    /\ LET cog == CogOf(cmd[c].handler)
           u == cmd[c].user
       IN  /\ timeout_tasks[cog][u].cur < MaxPending
           /\ timeout_tasks' = Spawn(timeout_tasks, active_games, cog, u, "cur")
    /\ cmd' = [cmd EXCEPT ![c].view.live = FALSE, ![c].view.done = "timeout",
                          ![c].first = IF @ = "none" THEN "view" ELSE @]
    /\ UNCHANGED <<dataVars, active_games, stale, mergeVars, economyVars, wheel>>

(* asyncio.wait returned: done holds every waiter that has completed, and  *)
(* done.pop() takes any of them.  stops: a callback still in defer() will  *)
(* stop the view the turn leaves behind.                                   *)
RaceResume(c, src, stops) ==
    /\ cmd[c].pc = "race" /\ IsBlackjack(cmd[c].handler)
    /\ LET rec == cmd[c]
           cog == CogOf(rec.handler)
       IN  IF src = "msg"
           THEN /\ rec.msg # "no"
                /\ stops => rec.view.live /\ rec.view.cb
                /\ cmd' = [cmd EXCEPT ![c].pc = "del_msg",
                                      ![c].action = IF rec.msg = "h" THEN "hit" ELSE "stand",
                                      ![c].last_race = "msg",
                                      ![c].view = NewView, ![c].msg = "no",
                                      ![c].first = "none"]
                /\ stale' = IF rec.view.live /\ ~stops
                            THEN [stale EXCEPT ![cog][rec.user] = @ + 1]
                            ELSE stale
           ELSE /\ rec.view.done # "no"
                /\ ~stops
                /\ cmd' = [cmd EXCEPT ![c].pc = "clear",
                                      ![c].action = rec.view.action,
                                      ![c].last_race =
                                          IF rec.view.done = "stopped" THEN "button"
                                          ELSE IF rec.msg = "no" THEN "timeout"
                                          ELSE "late",
                                      ![c].view = NewView, ![c].msg = "no",
                                      ![c].first = "none"]
                /\ UNCHANGED stale
    /\ UNCHANGED <<dataVars, active_games, timeout_tasks, mergeVars, economyVars, wheel>>

(* await result.delete(): Forbidden and NotFound are swallowed. *)
MessageDeleted(c, ok) ==
    /\ cmd[c].pc = "del_msg"
    /\ IF ok
       THEN Apply(c, Stay([cmd[c] EXCEPT !.pc = "clear"], World, active_games))
       ELSE Apply(c, Leave(cmd[c], World, active_games))
    /\ UNCHANGED <<stale, timeout_tasks, mergeVars, economyVars, wheel>>

(* game_message.edit(view=None) returned: the action is applied. *)
ButtonsCleared(c, ok, card, f) ==
    /\ cmd[c].pc = "clear"
    /\ cmd[c].action = "hit" => card \in deal_card(cmd[c].player_hand, cmd[c].dealer_hand)
    /\ LET rec == cmd[c]
           hand == AddCard(rec.player_hand, card)
       IN  IF ~ok THEN Apply(c, Leave(rec, World, active_games))
           ELSE IF rec.action = "hit"
           THEN IF get_hand_value(hand) > 21
                THEN Apply(c, Settle([rec EXCEPT !.player_hand = hand], World, active_games,
                                     0 - rec.bet, "blackjack_loss", f, 2))
                ELSE Apply(c, Stay([rec EXCEPT !.player_hand = hand, !.pc = "prompt",
                                                   !.action = None, !.hits = @ + 1],
                                   World, active_games))
           ELSE IF rec.action = "stand"
           THEN \E final \in DealerPlays(rec.player_hand, rec.dealer_hand) :
                    Apply(c, Stay([rec EXCEPT !.dealer_hand = final, !.pc = "stand_embed"],
                                  World, active_games))
           ELSE IF rec.action = "timeout"
           THEN Apply(c, Stay([Dead(rec) EXCEPT !.pc = "finish", !.left = 1],
                              World, active_games))
           ELSE Apply(c, Stay([rec EXCEPT !.pc = "prompt", !.action = None],
                              World, active_games))
    /\ UNCHANGED <<stale, timeout_tasks, mergeVars, economyVars, wheel>>

(* The final hands were shown: the winner is determined. *)
StandEmbedSent(c, ok, f) ==
    /\ cmd[c].pc = "stand_embed"
    /\ LET rec == cmd[c]
           player_value == get_hand_value(rec.player_hand)
           dealer_value == get_hand_value(rec.dealer_hand)
       IN  IF ~ok THEN Apply(c, Leave(rec, World, active_games))
           ELSE IF dealer_value > 21 \/ player_value > dealer_value
           THEN Apply(c, Settle(rec, World, active_games, BlackjackWinnings(rec.bet),
                                "blackjack_win", f, 1))
           ELSE IF player_value < dealer_value
           THEN Apply(c, Settle(rec, World, active_games, 0 - rec.bet,
                                "blackjack_loss", f, 1))
           ELSE Apply(c, Stay([Dead(rec) EXCEPT !.pc = "push_send"], World, active_games))
    /\ UNCHANGED <<stale, timeout_tasks, mergeVars, economyVars, wheel>>

(* The push message was sent: the zero change is recorded. *)
PushSent(c, ok, f) ==
    /\ cmd[c].pc = "push_send"
    /\ IF ~ok THEN Apply(c, Leave(cmd[c], World, active_games))
       ELSE Apply(c, Settle(cmd[c], World, active_games, 0, "blackjack_push", f, 0))
    /\ UNCHANGED <<stale, timeout_tasks, mergeVars, economyVars, wheel>>

(* One of the Discord calls that follow the balance update returned. *)
FinishStep(c, ok) ==
    /\ cmd[c].pc = "finish"
    /\ IF ~ok \/ cmd[c].left = 1
       THEN Apply(c, Leave(cmd[c], World, active_games))
       ELSE Apply(c, Stay([cmd[c] EXCEPT !.left = @ - 1], World, active_games))
    /\ UNCHANGED <<stale, timeout_tasks, mergeVars, economyVars, wheel>>

(* The timer of a view left behind by a chat-resolved turn fires. *)
StaleTimeout(cog, u) ==
    /\ stale[cog][u] > 0
    /\ timeout_tasks[cog][u].stale < MaxPending
    /\ stale' = [stale EXCEPT ![cog][u] = @ - 1]
    /\ timeout_tasks' = Spawn(timeout_tasks, active_games, cog, u, "stale")
    /\ UNCHANGED <<dataVars, active_games, cmd, mergeVars, economyVars, wheel>>

(* on_timeout after its await: if self.player_id in self.active_games: pop *)
OnTimeoutResume(cog, u, origin, ok) ==
    /\ timeout_tasks[cog][u][origin] > 0
    /\ timeout_tasks' = [timeout_tasks EXCEPT ![cog][u][origin] = @ - 1]
    /\ active_games' = IF ok THEN Pop(active_games, cog, u) ELSE active_games
    /\ UNCHANGED <<dataVars, cmd, stale, mergeVars, economyVars, wheel>>

(* A category button: _handle_choice_view sets bet_type and swaps the     *)
(* buttons for the choices.                                                *)
PickCategory(c, bet_type) ==
    /\ cmd[c].pc = "race" /\ ~IsBlackjack(cmd[c].handler)
    /\ cmd[c].view.live /\ cmd[c].bet_type = None
    /\ cmd' = [cmd EXCEPT ![c].bet_type = bet_type]
    /\ UNCHANGED <<dataVars, active_games, stale, timeout_tasks, mergeVars, economyVars, wheel>>

(* A choice button: self.bet_choice = choice; self.stop() *)
PickChoice(c, choice) ==
    /\ cmd[c].pc = "race" /\ ~IsBlackjack(cmd[c].handler)
    /\ cmd[c].view.live /\ cmd[c].bet_type \in Categories
    /\ choice \in Choices(cmd[c].bet_type)
    /\ cmd' = [cmd EXCEPT ![c].bet_choice = choice,
                          ![c].view.live = FALSE, ![c].view.done = "stopped"]
    /\ UNCHANGED <<dataVars, active_games, stale, timeout_tasks, mergeVars, economyVars, wheel>>

(* The Number button: bet_type is set and the callback waits for a number. *)
PickNumber(c) ==
    /\ cmd[c].pc = "race" /\ ~IsBlackjack(cmd[c].handler)
    /\ cmd[c].view.live /\ cmd[c].bet_type = None
    /\ cmd' = [cmd EXCEPT ![c].bet_type = "single", ![c].numwait = TRUE]
    /\ UNCHANGED <<dataVars, active_games, stale, timeout_tasks, mergeVars, economyVars, wheel>>

(* The number arrived: the view stops once msg.delete() has returned. *)
NumberTyped(c, n, ok) ==
    /\ cmd[c].pc = "race" /\ cmd[c].numwait
    /\ cmd' = [cmd EXCEPT ![c].bet_choice = Num(n), ![c].numwait = FALSE,
                          ![c].view.live = IF ok THEN FALSE ELSE @,
                          ![c].view.done = IF ok THEN "stopped" ELSE @]
    /\ UNCHANGED <<dataVars, active_games, stale, timeout_tasks, mergeVars, economyVars, wheel>>

(* No number within 30 seconds: once followup.send has returned the bet    *)
(* type is cleared and the view stops.                                     *)
NumberTimeout(c, ok) ==
    /\ cmd[c].pc = "race" /\ cmd[c].numwait
    /\ cmd' = [cmd EXCEPT ![c].numwait = FALSE,
                          ![c].bet_type = IF ok THEN None ELSE @,
                          ![c].view.live = IF ok THEN FALSE ELSE @,
                          ![c].view.done = IF ok THEN "stopped" ELSE @]
    /\ UNCHANGED <<dataVars, active_games, stale, timeout_tasks, mergeVars, economyVars, wheel>>

(* view.wait() returned: no bet type ends the command, otherwise the wheel *)
(* is spun.                                                                *)
RouletteResume(c, winning_number, f) ==
    /\ cmd[c].pc = "race" /\ ~IsBlackjack(cmd[c].handler)
    /\ cmd[c].view.done # "no"
    /\ LET rec == [cmd[c] EXCEPT !.last_race = IF cmd[c].view.done = "timeout"
                                               THEN "timeout" ELSE "button"]
           cog == CogOf(rec.handler)
           winnings == get_winnings(rec.handler, rec.bet, rec.bet_type, rec.bet_choice,
                                    winning_number)
       IN  IF rec.bet_type = None
           THEN Apply(c, Leave(rec, World, Pop(active_games, cog, rec.user)))
           ELSE IF ~winnings.ok THEN Apply(c, Leave(rec, World, active_games))
           ELSE IF rec.handler = "Roulette.roulette"
           THEN Apply(c, Settle(rec, World, active_games, winnings.value,
                                RouletteAction(rec.handler, winnings.value), f, 1))
           ELSE Apply(c, Stay([Dead(rec) EXCEPT !.pc = "settle",
                                                !.winnings = winnings.value],
                              World, active_games))
    /\ UNCHANGED <<stale, timeout_tasks, mergeVars, economyVars, wheel>>

(* CasinoCog: the result was shown, then the balance is updated. *)
RouletteSettle(c, ok, f) ==
    /\ cmd[c].pc = "settle"
    /\ IF ~ok THEN Apply(c, Leave(cmd[c], World, active_games))
       ELSE Apply(c, Settle(cmd[c], World, active_games, cmd[c].winnings,
                            RouletteAction(cmd[c].handler, cmd[c].winnings), f, 0))
    /\ UNCHANGED <<stale, timeout_tasks, mergeVars, economyVars, wheel>>

(***************************************************************************)
(* The economy commands (cogs/economy.py), one action per stretch of code  *)
(* between two suspensions.  The members a command names are users of the  *)
(* guild, none of them a bot.                                              *)
(***************************************************************************)
EcoGuild == "g1"

(* A stretch of a command ends in [w, rec]. *)
EcoStay(rec, w) == [w |-> w, rec |-> rec]

(* The command returns, or an exception leaves it. *)
EcoReturn(rec, w) == [w |-> w, rec |-> [IdleEco EXCEPT !.pc = "done",
                                                       !.command = rec.command,
                                                       !.user = rec.user,
                                                       !.member = rec.member]]

EcoApply(c, res) ==
    /\ Commit(res.w)
    /\ eco' = [eco EXCEPT ![c] = res.rec]
    /\ UNCHANGED <<now, ncalls, gameVars, mergeVars, drop, wheel>>

(* send_embed of a refusal up to ctx.send: get_embed_color reads the       *)
(* configuration; the command returns (or raises BadArgument) after it.    *)
Reply(rec, server_config) ==
    IF ~server_config.ok THEN EcoReturn(rec, server_config)
    ELSE EcoStay([rec EXCEPT !.pc = "reply"], server_config)

(* format_currency and send_embed of the result up to ctx.send, both       *)
(* reading the configuration; `posts` money-log posts follow if the        *)
(* command holds a log channel.                                            *)
Result(rec, server_config, log_channel, posts) ==
    IF ~server_config.ok THEN EcoReturn(rec, server_config)
    ELSE EcoStay([rec EXCEPT !.pc = "send", !.log_channel = log_channel, !.posts = posts],
                 server_config)

(* The configuration read again after a call that ended in r. *)
ThenConfig(r, f) == IF ~r.ok THEN r ELSE get_server_config(r, EcoGuild, f, now)

(* if last: if datetime.now(timezone.utc) < last + timedelta(hours=hours) *)
OnCooldown(last, hours, t) == last # NoTime /\ t < last + hours * 3600

(* random.randint(low, high): the lowest or the highest value *)
RandInt(low, high, top) == IF top THEN high ELSE low

Max(a, b) == IF a > b THEN a ELSE b
Min(a, b) == IF a < b THEN a ELSE b

(* ---- work ------------------------------------------------------------- *)
(* work once update_user_balance has ended in ub *)
WorkPaid(rec, ub, eco_config, f) ==
    IF ~ub.ok THEN EcoReturn(rec, ub)
    ELSE Result(rec,
                ThenConfig(update_user_economy(ub, EcoGuild, rec.user,
                                               [last_work |-> now], f, now), f),
                eco_config.log_channel, 1)

(* work once get_user_economy_data has ended in user_data *)
WorkBody(rec, user_data, eco_config, top, f) ==
    IF ~user_data.ok THEN EcoReturn(rec, user_data)
    ELSE IF OnCooldown(user_data.ret.last_work, eco_config.work_cooldown_hours, now)
    THEN Reply(rec, ThenConfig(user_data, f))
    ELSE WorkPaid(rec,
                  update_user_balance(user_data, EcoGuild, rec.user,
                                      RandInt(eco_config.work_min_amount,
                                              eco_config.work_max_amount, top),
                                      "work", "USER", None, f, now),
                  eco_config, f)

(* work once get_server_config has ended in server_config *)
work(rec, server_config, top, f) ==
    IF ~server_config.ok THEN EcoReturn(rec, server_config)
    ELSE WorkBody(rec, get_user_economy_data(server_config, EcoGuild, rec.user, f, now),
                  server_config.ret.economy, top, f)

(* ---- steal ------------------------------------------------------------ *)
(* The draws of random.random(), in hundredths. *)
Draws == {0, 70}

(* The first of two update_user_balance calls ended in ub: the second one  *)
(* follows, for the other user.                                            *)
ThenBalance(ub, user_id, change, action, target_user_id, f) ==
    IF ~ub.ok THEN ub
    ELSE update_user_balance(ub, EcoGuild, user_id, change, action, "USER",
                             target_user_id, f, now)

(* The successful steal once get_user_economy_data(guild_id, member.id)    *)
(* has ended in target_data.                                               *)
StealFrom(rec, target_data, eco_config, top, f) ==
    IF ~target_data.ok THEN EcoReturn(rec, target_data)
    ELSE IF target_data.ret.balance < 1
    THEN Result(rec, ThenConfig(target_data, f), eco_config.log_channel, 1)
    ELSE Result(rec,
                ThenConfig(
                    ThenBalance(
                        update_user_balance(
                            target_data, EcoGuild, rec.user,
                            RandInt(1, Max(1, (target_data.ret.balance
                                               * eco_config.steal_max_percentage) \div 100),
                                    top),
                            "steal_success", "USER", rec.member, f, now),
                        rec.member,
                        0 - RandInt(1, Max(1, (target_data.ret.balance
                                               * eco_config.steal_max_percentage) \div 100),
                                    top),
                        "stolen_from", rec.user, f), f),
                eco_config.log_channel, 2)

(* The failed steal: the penalty is taken from the thief. *)
StealCaught(rec, w, eco_config, f) ==
    Result(rec,
           ThenConfig(update_user_balance(w, EcoGuild, rec.user, 0 - eco_config.steal_penalty,
                                          "steal_fail", "USER", rec.member, f, now), f),
           eco_config.log_channel, 1)

(* steal once update_user_economy(..., {'last_steal': now}) has ended in   *)
(* upd: if random.random() < eco_config['steal_chance']                    *)
StealAttempt(rec, upd, eco_config, draw, top, f) ==
    IF ~upd.ok THEN EcoReturn(rec, upd)
    ELSE IF draw < eco_config.steal_chance
    THEN StealFrom(rec, get_user_economy_data(upd, EcoGuild, rec.member, f, now),
                   eco_config, top, f)
    ELSE StealCaught(rec, upd, eco_config, f)

(* steal once get_user_economy_data has ended in user_data *)
StealBody(rec, user_data, eco_config, draw, top, f) ==
    IF ~user_data.ok THEN EcoReturn(rec, user_data)
    ELSE IF OnCooldown(user_data.ret.last_steal, eco_config.steal_cooldown_hours, now)
              \/ rec.member = rec.user
    THEN Reply(rec, ThenConfig(user_data, f))
    ELSE StealAttempt(rec,
                      update_user_economy(user_data, EcoGuild, rec.user,
                                          [last_steal |-> now], f, now),
                      eco_config, draw, top, f)

steal(rec, server_config, draw, top, f) ==
    IF ~server_config.ok THEN EcoReturn(rec, server_config)
    ELSE StealBody(rec, get_user_economy_data(server_config, EcoGuild, rec.user, f, now),
                   server_config.ret.economy, draw, top, f)

(* ---- give ------------------------------------------------------------- *)
(* The amount argument: absent, or a string as the bets are. *)
NoAmount == [kind |-> "none", n |-> 0]
GiveAmounts ==
    {NoAmount, [kind |-> "all", n |-> 0], [kind |-> "int", n |-> 100],
     [kind |-> "int", n |-> -5], [kind |-> "int", n |-> 5000],
     [kind |-> "percent", n |-> 50], [kind |-> "percent", n |-> 150],
     [kind |-> "percent", n |-> 0], [kind |-> "text", n |-> 0]}

(* A give that moves the amount without comparing it with the balance. *)
GiveUnchecked(rec, user_data, amount_given, f) ==
    IF amount_given <= 0 THEN Reply(rec, ThenConfig(user_data, f))
    ELSE Result(rec,
                ThenConfig(
                    ThenBalance(
                        update_user_balance(user_data, EcoGuild, rec.user, 0 - amount_given,
                                            "give_success", "USER", rec.member, f, now),
                        rec.member, amount_given, "given_to", rec.user, f), f),
                None, 2)

(* give once the amount is known: the two validations, then the two        *)
(* balance updates.                                                        *)
GiveChecked(rec, user_data, amount_given, f) ==
    IF amount_given <= 0 \/ amount_given > user_data.ret.balance
    THEN Reply(rec, ThenConfig(user_data, f))
    ELSE Result(rec,
                ThenConfig(
                    ThenBalance(
                        update_user_balance(user_data, EcoGuild, rec.user, 0 - amount_given,
                                            "give_success", "USER", rec.member, f, now),
                        rec.member, amount_given, "given_to", rec.user, f), f),
                None, 2)

(* give once get_user_economy_data has ended in user_data: without an      *)
(* amount random.randint(1, min(20, user_balance)), which raises on an     *)
(* empty range.                                                            *)
GiveBody(rec, user_data, amount, top, f) ==
    IF ~user_data.ok THEN EcoReturn(rec, user_data)
    ELSE IF amount = NoAmount
    THEN IF Min(20, user_data.ret.balance) < 1 THEN EcoReturn(rec, user_data)
         ELSE GiveChecked(rec, user_data,
                          RandInt(1, Min(20, user_data.ret.balance), top), f)
    ELSE IF ~amount_str_to_int(amount, user_data.ret.balance).ok
    THEN Reply(rec, ThenConfig(user_data, f))
    ELSE GiveChecked(rec, user_data,
                     amount_str_to_int(amount, user_data.ret.balance).value, f)

(* give once the in_allowed_channels check has read the configuration *)
give(rec, server_config, amount, top, f) ==
    IF ~server_config.ok THEN EcoReturn(rec, server_config)
    ELSE IF rec.member = rec.user THEN Reply(rec, ThenConfig(server_config, f))
    ELSE GiveBody(rec, get_user_economy_data(server_config, EcoGuild, rec.user, f, now),
                  amount, top, f)

(* ---- the actions ------------------------------------------------------ *)
Started(c, command, u, member) ==
    [eco[c] EXCEPT !.command = command, !.user = u, !.member = member]

EcoIdle(c) ==
    /\ eco[c].pc = "idle"
    /\ \A c2 \in EcoCmds : c2 < c => eco[c2].pc # "idle"

Work(c, u, top, f) ==
    /\ EcoIdle(c)
    /\ EcoApply(c, work(Started(c, "work", u, None),
                        get_server_config(World, EcoGuild, f, now), top, f))

Steal(c, u, member, draw, top, f) ==
    /\ EcoIdle(c)
    /\ EcoApply(c, steal(Started(c, "steal", u, member),
                         get_server_config(World, EcoGuild, f, now), draw, top, f))

Give(c, u, member, amount, top, f) ==
    /\ EcoIdle(c)
    /\ EcoApply(c, give(Started(c, "give", u, member),
                        get_server_config(World, EcoGuild, f, now), amount, top, f))

(* ctx.send of a refusal returned or raised: the command is over. *)
EcoReplied(c) ==
    /\ eco[c].pc = "reply"
    /\ EcoApply(c, EcoReturn(eco[c], World))

(* post_money_log up to log_channel.send: bot.get_channel gives a text     *)
(* channel (found) or the function returns at once, and so do the posts    *)
(* that follow to the same channel; get_embed_color reads the              *)
(* configuration.                                                          *)
PostMoneyLog(rec, server_config, found) ==
    IF ~found \/ ~server_config.ok THEN EcoReturn(rec, server_config)
    ELSE EcoStay([rec EXCEPT !.pc = "log"], server_config)

(* The log channel once the result message is out: work and steal hold it  *)
(* in eco_config, give reads the configuration now.                        *)
LogChannel(rec, server_config) ==
    IF rec.command = "give" THEN server_config.ret.economy.log_channel ELSE rec.log_channel

(* ctx.send of the result returned (ok) or raised. *)
EcoSent(c, ok, found, f) ==
    /\ eco[c].pc = "send"
    /\ IF ~ok THEN EcoApply(c, EcoReturn(eco[c], World))
       ELSE IF eco[c].command # "give" /\ eco[c].log_channel = None
       THEN EcoApply(c, EcoReturn(eco[c], World))
       ELSE IF ~get_server_config(World, EcoGuild, f, now).ok
       THEN EcoApply(c, EcoReturn(eco[c], get_server_config(World, EcoGuild, f, now)))
       ELSE IF LogChannel(eco[c], get_server_config(World, EcoGuild, f, now)) = None
       THEN EcoApply(c, EcoReturn(eco[c], get_server_config(World, EcoGuild, f, now)))
       ELSE EcoApply(c, PostMoneyLog(eco[c], get_server_config(World, EcoGuild, f, now),
                                     found))

(* log_channel.send returned (ok) or raised: the next post, or the end. *)
EcoLogged(c, ok, f) ==
    /\ eco[c].pc = "log"
    /\ IF ~ok \/ eco[c].posts = 1 THEN EcoApply(c, EcoReturn(eco[c], World))
       ELSE EcoApply(c, PostMoneyLog([eco[c] EXCEPT !.posts = @ - 1],
                                     get_server_config(World, EcoGuild, f, now), TRUE))

(* A guild whose economy never lets a steal succeed and posts its money    *)
(* log to a channel.                                                       *)
StealNever == [DEFAULT_ECONOMY_CONFIG EXCEPT !.steal_chance = 0, !.log_channel = "555"]

EconomyStores ==
    {EmptyDb,
     [EmptyDb EXCEPT !.server_configs =
         {[DefaultServerConfig(EcoGuild) EXCEPT !.economy = StealNever]}]}

EconomyInit ==
    /\ supabase \in EconomyStores
    /\ SERVER_CONFIG_CACHE = [g \in Guilds |-> NoEntry]
    /\ ECONOMY_CACHE = [k \in Keys |-> NoEntry]
    /\ now = 0
    /\ ncalls = 0
    /\ GameInit
    /\ MergeIdle
    /\ EconomyIdle /\ WheelIdle

EconomyFaults == {{}, {"update"}, {"log"}}

EconomyNext ==
    \/ \E c \in EcoCmds, u \in Users, top \in BOOLEAN, f \in EconomyFaults : Work(c, u, top, f)
    \/ \E c \in EcoCmds, u \in Users, member \in Users, draw \in Draws, top \in BOOLEAN,
          f \in EconomyFaults : Steal(c, u, member, draw, top, f)
    \/ \E c \in EcoCmds, u \in Users, member \in Users, amount \in GiveAmounts,
          top \in BOOLEAN, f \in EconomyFaults : Give(c, u, member, amount, top, f)
    \/ \E c \in EcoCmds : EcoReplied(c)
    \/ \E c \in EcoCmds, ok \in BOOLEAN, found \in BOOLEAN : EcoSent(c, ok, found, {})
    \/ \E c \in EcoCmds, ok \in BOOLEAN : EcoLogged(c, ok, {})
    \/ Tick

SpecEconomy == EconomyInit /\ [][EconomyNext]_vars

(* One session at a time: the commands of Solo.  With nobody else in the   *)
(* registry no command is refused, so RejectSent has no step here.         *)
Solo == {1}

Next ==
    \/ \E c \in Solo, h \in Handlers, u \in GameUsers, bet_str \in BetStrs,
          ph \in TwoCardHands, dh \in TwoCardHands, f \in GameFaults :
          Invoke(c, h, u, bet_str, ph, dh, f)
    \/ \E c \in Solo : InvalidSent(c)
    \/ \E c \in Solo, ok \in BOOLEAN : PromptSent(c, ok)
    \/ \E c \in Solo, content \in {"h", "s"} : ChatMessage(c, content)
    \/ \E c \in Solo, a \in {"hit", "stand"} : ButtonPress(c, a)
    \/ \E c \in Solo, ok \in BOOLEAN : ButtonDeferred(c, ok)
    \/ \E c \in Solo : ViewTimeout(c)
    \/ \E c \in Solo, src \in {"msg", "view"}, stops \in BOOLEAN : RaceResume(c, src, stops)
    \/ \E c \in Solo, ok \in BOOLEAN : MessageDeleted(c, ok)
    \/ \E c \in Solo, ok \in BOOLEAN, card \in Ranks, f \in GameFaults :
          ButtonsCleared(c, ok, card, f)
    \/ \E c \in Solo, ok \in BOOLEAN, f \in GameFaults : StandEmbedSent(c, ok, f)
    \/ \E c \in Solo, ok \in BOOLEAN, f \in GameFaults : PushSent(c, ok, f)
    \/ \E c \in Solo, ok \in BOOLEAN : FinishStep(c, ok)
    \/ \E cog \in Cogs, u \in GameUsers : StaleTimeout(cog, u)
    \/ \E cog \in Cogs, u \in GameUsers, origin \in {"cur", "stale"}, ok \in BOOLEAN :
          OnTimeoutResume(cog, u, origin, ok)
    \/ \E c \in Solo, bet_type \in Categories : PickCategory(c, bet_type)
    \/ \E c \in Solo, choice \in UNION {Choices(t) : t \in Categories} : PickChoice(c, choice)
    \/ \E c \in Solo : PickNumber(c)
    \/ \E c \in Solo, n \in TypedNumbers, ok \in BOOLEAN : NumberTyped(c, n, ok)
    \/ \E c \in Solo, ok \in BOOLEAN : NumberTimeout(c, ok)
    \/ \E c \in Solo, n \in SpinNumbers, f \in GameFaults : RouletteResume(c, n, f)
    \/ \E c \in Solo, ok \in BOOLEAN, f \in GameFaults : RouletteSettle(c, ok, f)

Spec == Init /\ [][Next]_vars

(***************************************************************************)
(* Two commands of one user in flight together.  The player bets          *)
(* everything or mistypes the bet, is dealt two kings against two kings,  *)
(* stands, and bets on red; the store does not fail.                       *)
(***************************************************************************)
PairBets == {[kind |-> "all", n |-> 0], [kind |-> "text", n |-> 0]}
PairHands == {AddCard(AddCard(EmptyHand, "K"), "K")}

NextPair ==
    \/ \E c \in Cmds, h \in Handlers, u \in GameUsers, bet_str \in PairBets,
          ph \in PairHands, dh \in PairHands :
          Invoke(c, h, u, bet_str, ph, dh, {})
    \/ \E c \in Cmds : RejectSent(c)
    \/ \E c \in Cmds : InvalidSent(c)
    \/ \E c \in Cmds, ok \in BOOLEAN : PromptSent(c, ok)
    \/ \E c \in Cmds : ChatMessage(c, "s")
    \/ \E c \in Cmds : ButtonPress(c, "stand")
    \/ \E c \in Cmds, ok \in BOOLEAN : ButtonDeferred(c, ok)
    \/ \E c \in Cmds : ViewTimeout(c)
    \/ \E c \in Cmds, src \in {"msg", "view"}, stops \in BOOLEAN : RaceResume(c, src, stops)
    \/ \E c \in Cmds, ok \in BOOLEAN : MessageDeleted(c, ok)
    \/ \E c \in Cmds, ok \in BOOLEAN : ButtonsCleared(c, ok, "K", {})
    \/ \E c \in Cmds, ok \in BOOLEAN : StandEmbedSent(c, ok, {})
    \/ \E c \in Cmds, ok \in BOOLEAN : PushSent(c, ok, {})
    \/ \E c \in Cmds, ok \in BOOLEAN : FinishStep(c, ok)
    \/ \E cog \in Cogs, u \in GameUsers : StaleTimeout(cog, u)
    \/ \E cog \in Cogs, u \in GameUsers, origin \in {"cur", "stale"}, ok \in BOOLEAN :
          OnTimeoutResume(cog, u, origin, ok)
    \/ \E c \in Cmds : PickCategory(c, "color")
    \/ \E c \in Cmds : PickChoice(c, Word("red"))
    \/ \E c \in Cmds, n \in SpinNumbers : RouletteResume(c, n, {})
    \/ \E c \in Cmds, ok \in BOOLEAN : RouletteSettle(c, ok, {})

SpecPair == Init /\ [][NextPair]_vars

(***************************************************************************)
(* One game command and one give command, with every kind of amount: a    *)
(* number, all, a percentage, text.  The player is dealt two kings against *)
(* two kings, stands, and bets on red; the store does not fail.            *)
(***************************************************************************)
Givers == {1}

NextInput ==
    \/ \E c \in Solo, h \in Handlers, u \in GameUsers, bet_str \in BetStrs,
          ph \in PairHands, dh \in PairHands :
          Invoke(c, h, u, bet_str, ph, dh, {})
    \/ \E c \in Solo : InvalidSent(c)
    \/ \E c \in Solo, ok \in BOOLEAN : PromptSent(c, ok)
    \/ \E c \in Solo : ChatMessage(c, "s")
    \/ \E c \in Solo : ButtonPress(c, "stand")
    \/ \E c \in Solo, ok \in BOOLEAN : ButtonDeferred(c, ok)
    \/ \E c \in Solo : ViewTimeout(c)
    \/ \E c \in Solo, src \in {"msg", "view"}, stops \in BOOLEAN : RaceResume(c, src, stops)
    \/ \E c \in Solo, ok \in BOOLEAN : MessageDeleted(c, ok)
    \/ \E c \in Solo, ok \in BOOLEAN : ButtonsCleared(c, ok, "K", {})
    \/ \E c \in Solo, ok \in BOOLEAN : StandEmbedSent(c, ok, {})
    \/ \E c \in Solo, ok \in BOOLEAN : PushSent(c, ok, {})
    \/ \E c \in Solo, ok \in BOOLEAN : FinishStep(c, ok)
    \/ \E cog \in Cogs, u \in GameUsers : StaleTimeout(cog, u)
    \/ \E cog \in Cogs, u \in GameUsers, origin \in {"cur", "stale"}, ok \in BOOLEAN :
          OnTimeoutResume(cog, u, origin, ok)
    \/ \E c \in Solo : PickCategory(c, "color")
    \/ \E c \in Solo : PickChoice(c, Word("red"))
    \/ \E c \in Solo, n \in SpinNumbers : RouletteResume(c, n, {})
    \/ \E c \in Solo, ok \in BOOLEAN : RouletteSettle(c, ok, {})
    \/ \E c \in Givers, u \in Users, member \in Users, amount \in GiveAmounts,
          top \in BOOLEAN : Give(c, u, member, amount, top, {})
    \/ \E c \in Givers : EcoReplied(c)
    \/ \E c \in Givers, ok \in BOOLEAN : EcoSent(c, ok, TRUE, {})

SpecInput == Init /\ [][NextInput]_vars

(***************************************************************************)
(* A money drop: on_message of bot.py builds a DropView and the members    *)
(* of the guild press its button.                                          *)
(***************************************************************************)
DropGuild == "g1"

DropApply(r, d) ==
    /\ Commit(r)
    /\ drop' = d
    /\ UNCHANGED <<now, ncalls, gameVars, mergeVars, eco, wheel>>

(* on_message once get_server_config has ended in server_config: a drop    *)
(* when drops are enabled, random.random() is below the chance (lucky)     *)
(* and allowed_channels admits the text channel of the message (allowed),  *)
(* of random.randint(min_amount, max_amount); the message with the view    *)
(* is being sent.                                                          *)
on_message(d, server_config, lucky, allowed, top) ==
    IF ~server_config.ok THEN d
    ELSE IF server_config.ret.moneydrop.enabled /\ lucky /\ allowed
    THEN [d EXCEPT !.made = TRUE,
                   !.amount = RandInt(server_config.ret.moneydrop.min_amount,
                                      server_config.ret.moneydrop.max_amount, top)]
    ELSE d

OnMessage(lucky, allowed, top, f) ==
    /\ ~drop.made
    /\ DropApply(get_server_config(World, DropGuild, f, now),
                 on_message(drop, get_server_config(World, DropGuild, f, now), lucky, allowed,
                            top))

(* message.channel.send(embed=embed, view=view) returned (ok): the button  *)
(* takes presses; or raised, and the drop is never shown.                  *)
DropSent(ok) ==
    /\ drop.made /\ ~drop.live /\ drop.press = NoDrop.press /\ drop.amount > 0
    /\ DropApply(World, IF ok THEN [drop EXCEPT !.live = TRUE]
                              ELSE [drop EXCEPT !.amount = 0])

(* A claim that does not mark the drop as claimed. *)
ClaimUnmarked(d, u) ==
    IF d.claimed THEN [d EXCEPT !.press[u] = "refuse"]
    ELSE [d EXCEPT !.press[u] = "edit"]

(* claim_button up to its first await: the refusal of a claimed drop, or   *)
(* self.claimed = True and the edit of the message.                        *)
claim_button(d, u) ==
    IF d.claimed THEN [d EXCEPT !.press[u] = "refuse"]
    ELSE [d EXCEPT !.claimed = TRUE, !.press[u] = "edit"]

Press(u) ==
    /\ drop.live
    /\ drop.press[u] = "idle"
    /\ DropApply(World, claim_button(drop, u))

(* interaction.response.send_message of the refusal returned or raised. *)
DropRefused(u) ==
    /\ drop.press[u] = "refuse"
    /\ DropApply(World, [drop EXCEPT !.press[u] = "done"])

(* claim_button once update_user_balance has ended in ub: format_currency  *)
(* reads the configuration, then the confirmation is sent.                 *)
DropPaid(d, u, ub, f) ==
    IF ~ub.ok \/ ~ThenConfig(ub, f).ok THEN [d EXCEPT !.press[u] = "done"]
    ELSE [d EXCEPT !.press[u] = "respond"]

(* interaction.message.edit(view=self) returned (ok) or raised. *)
DropEdited(u, ok, f) ==
    /\ drop.press[u] = "edit"
    /\ IF ~ok THEN DropApply(World, [drop EXCEPT !.press[u] = "done"])
       ELSE DropApply(ThenConfig(update_user_balance(World, DropGuild, u, drop.amount,
                                                     "money_drop_claim", "BOT", None, f, now),
                                 f),
                      DropPaid([drop EXCEPT !.calls = @ + 1], u,
                               update_user_balance(World, DropGuild, u, drop.amount,
                                                   "money_drop_claim", "BOT", None, f, now),
                               f))

(* The confirmation returned or raised; (await get_server_config(...))     *)
(* .get('log') finds no such key, so no money log is posted.               *)
DropResponded(u, ok, f) ==
    /\ drop.press[u] = "respond"
    /\ DropApply(IF ok THEN get_server_config(World, DropGuild, f, now) ELSE World,
                 [drop EXCEPT !.press[u] = "done"])

(* The view times out after 30 seconds and takes no more presses. *)
DropTimeout ==
    /\ drop.live
    /\ DropApply(World, [drop EXCEPT !.live = FALSE])

(* A guild that has its money drops enabled. *)
DropStores ==
    {[EmptyDb EXCEPT !.server_configs =
         {[DefaultServerConfig(DropGuild) EXCEPT !.moneydrop.enabled = TRUE]}]}

DropInit ==
    /\ supabase \in DropStores
    /\ SERVER_CONFIG_CACHE = [g \in Guilds |-> NoEntry]
    /\ ECONOMY_CACHE = [k \in Keys |-> NoEntry]
    /\ now = 0
    /\ ncalls = 0
    /\ GameInit
    /\ MergeIdle
    /\ EconomyIdle /\ WheelIdle

DropNext ==
    \/ \E lucky \in BOOLEAN, allowed \in BOOLEAN, top \in BOOLEAN, f \in {{}, {"select"}} :
          OnMessage(lucky, allowed, top, f)
    \/ \E ok \in BOOLEAN : DropSent(ok)
    \/ \E u \in Users : Press(u)
    \/ \E u \in Users : DropRefused(u)
    \/ \E u \in Users, ok \in BOOLEAN, f \in EconomyFaults : DropEdited(u, ok, f)
    \/ \E u \in Users, ok \in BOOLEAN : DropResponded(u, ok, {})
    \/ DropTimeout
    \/ \E k \in CallKeys : CallGetUserEconomyData(k[1], k[2], {})
    \/ Tick

SpecDrop == DropInit /\ [][DropNext]_vars

(***************************************************************************)
(* The events of bot.py that are to give the members their economy rows.   *)
(***************************************************************************)
(* update_user_economy(guild.id, member.id, {}) for the members ms *)
RECURSIVE SetupMembers(_, _, _, _, _)
SetupMembers(w, g, ms, f, t) ==
    IF ms = {} \/ ~w.ok THEN w
    ELSE LET member == CHOOSE m \in ms : TRUE
         IN  SetupMembers(update_user_economy(w, g, member, <<>>, f, t), g,
                          ms \ {member}, f, t)

(* for guild in bot.guilds: get_server_config, then the members that are   *)
(* no bots                                                                 *)
RECURSIVE retroactive_setup(_, _, _, _)
retroactive_setup(w, guilds, f, t) ==
    IF guilds = {} \/ ~w.ok THEN w
    ELSE LET guild == CHOOSE g \in guilds : TRUE
         IN  retroactive_setup(SetupMembers(get_server_config(w, guild, f, t), guild,
                                            Users, f, t),
                               guilds \ {guild}, f, t)

on_member_join(w, g, member, is_bot, f, t) ==
    IF is_bot THEN w ELSE update_user_economy(w, g, member, <<>>, f, t)

OnMemberJoin(g, member, is_bot) ==
    /\ ncalls < MaxCalls
    /\ Commit(on_member_join(Outcome(World, TRUE, NoRet), g, member, is_bot, {}, now))
    /\ ncalls' = ncalls + 1
    /\ UNCHANGED <<now, active_games, cmd, stale, timeout_tasks, mergeVars, economyVars, wheel>>

OnReady(f) ==
    /\ ncalls < MaxCalls
    /\ Commit(retroactive_setup(Outcome(World, TRUE, NoRet), Guilds, f, now))
    /\ ncalls' = ncalls + 1
    /\ UNCHANGED <<now, active_games, cmd, stale, timeout_tasks, mergeVars, economyVars, wheel>>

JoinNext ==
    \/ \E k \in CallKeys, is_bot \in BOOLEAN : OnMemberJoin(k[1], k[2], is_bot)
    \/ \E f \in {{}, {"select"}} : OnReady(f)
    \/ \E k \in CallKeys : CallGetUserEconomyData(k[1], k[2], {})
    \/ \E k \in CallKeys, req \in Requests : CallUpdateUserBalance(k[1], k[2], req, {})
    \/ Tick

SpecJoin == Init /\ [][JoinNext]_vars

(***************************************************************************)
(* Claims about the data layer.                                            *)
(***************************************************************************)
EconomyRows(db, g, u) == {r \in db.economy : r.guild_id = g /\ r.user_id = u}

ConfigRows(db, g) == {r \in db.server_configs : r.guild_id = g}

(* The balance update_user_balance starts from as the store has it: the    *)
(* stored balance, or for a pair without a row the guild's starting        *)
(* balance.                                                                *)
PreviousBalance(db, g, u) ==
    IF EconomyRows(db, g, u) # {}
    THEN (CHOOSE r \in EconomyRows(db, g, u) : TRUE).balance
    ELSE IF ConfigRows(db, g) # {}
         THEN (CHOOSE r \in ConfigRows(db, g) : TRUE).economy.starting_balance
         ELSE DEFAULT_ECONOMY_CONFIG.starting_balance

LedgerEntry(g, u, req, t) ==
    [action |-> req.action, amount |-> req.change, type |-> req.type,
     target_user_id |-> req.target_user_id, guild_id |-> g, user_id |-> u,
     timestamp |-> t]

(* C1: a successful update_user_balance(g, u, change, ...) leaves the      *)
(* stored balance of (g, u) at its previous stored balance plus change,    *)
(* sets participant, appends exactly one ledger entry with the call's      *)
(* guild, user, change, action, type and target, and returns the new       *)
(* balance.                                                                *)
C1_MutateBalance ==
    [][\A k \in CallKeys, req \in Requests, f \in GameFaults :
        LET g == k[1]
            u == k[2]
            r == update_user_balance(World, g, u, req.change, req.action, req.type,
                                     req.target_user_id, f, now)
            expected == PreviousBalance(supabase, g, u) + req.change
        IN  (CallUpdateUserBalance(g, u, req, f) /\ r.ok) =>
              /\ EconomyRows(supabase', g, u) # {}
              /\ \A row \in EconomyRows(supabase', g, u) :
                    row.balance = expected /\ row.participant
              /\ supabase'.economy_logs =
                    Append(supabase.economy_logs, LedgerEntry(g, u, req, now))
              /\ r.ret = expected]_vars

(* C2: update_user_balance(g, u, ...) and update_user_economy(g, u, ...)   *)
(* change only the store row and the cache entry of (g, u): the row and    *)
(* the cache entry of every other pair are unchanged.                      *)
C2_EconomyWritesPartitioned ==
    [][\A k \in CallKeys :
        LET g == k[1]
            u == k[2]
        IN  (\/ \E req \in Requests, f \in GameFaults : CallUpdateUserBalance(g, u, req, f)
             \/ \E f \in GameFaults : CallUpdateUserEconomy(g, u, f))
            => \A k2 \in Keys \ {k} :
                  /\ EconomyRows(supabase', k2[1], k2[2]) = EconomyRows(supabase, k2[1], k2[2])
                  /\ ECONOMY_CACHE'[k2] = ECONOMY_CACHE[k2]]_vars

(***************************************************************************)
(* The player who never answers: after the command nothing is typed and    *)
(* nothing is pressed.  Every Discord call returns and every timer fires.  *)
(***************************************************************************)
NextQuiet ==
    \/ \E c \in Solo, h \in Handlers, u \in GameUsers, bet_str \in BetStrs,
          ph \in TwoCardHands, dh \in TwoCardHands, f \in GameFaults :
          Invoke(c, h, u, bet_str, ph, dh, f)
    \/ \E c \in Solo : InvalidSent(c)
    \/ \E c \in Solo, ok \in BOOLEAN : PromptSent(c, ok)
    \/ \E c \in Solo : ViewTimeout(c)
    \/ \E c \in Solo : RaceResume(c, "view", FALSE)
    \/ \E c \in Solo, ok \in BOOLEAN, card \in Ranks, f \in GameFaults :
          ButtonsCleared(c, ok, card, f)
    \/ \E c \in Solo, ok \in BOOLEAN : FinishStep(c, ok)
    \/ \E cog \in Cogs, u \in GameUsers, ok \in BOOLEAN : OnTimeoutResume(cog, u, "cur", ok)
    \/ \E c \in Solo, n \in SpinNumbers, f \in GameFaults : RouletteResume(c, n, f)

QuietFairness ==
    /\ \A c \in Solo :
          /\ WF_vars(InvalidSent(c))
          /\ WF_vars(\E ok \in BOOLEAN : PromptSent(c, ok))
          /\ WF_vars(ViewTimeout(c))
          /\ WF_vars(RaceResume(c, "view", FALSE))
          /\ WF_vars(\E ok \in BOOLEAN, card \in Ranks, f \in GameFaults :
                        ButtonsCleared(c, ok, card, f))
          /\ WF_vars(\E ok \in BOOLEAN : FinishStep(c, ok))
          /\ WF_vars(\E n \in SpinNumbers, f \in GameFaults : RouletteResume(c, n, f))
    /\ \A cog \in Cogs, u \in GameUsers :
          WF_vars(\E ok \in BOOLEAN : OnTimeoutResume(cog, u, "cur", ok))

SpecQuiet == Init /\ [][NextQuiet]_vars /\ QuietFairness

(***************************************************************************)
(* Claims about the game sessions.                                         *)
(***************************************************************************)
(* The command is past its checks and holds a game: it waits on a prompt,  *)
(* on the player, or on a call that follows.                               *)
Playing(c) ==
    cmd[c].pc \in {"prompt", "race", "del_msg", "clear", "stand_embed", "push_send",
                   "settle", "finish"}

Entry(c) == active_games[CogOf(cmd[c].handler)][cmd[c].user]

(* C3: at no time do two commands of one user and one game family both    *)
(* hold a game; the second is refused while the first holds the registry   *)
(* entry, be it the None marker or a prompt.                               *)
C3_OneSessionPerFamily ==
    \A c1, c2 \in Cmds :
        (c1 # c2 /\ Playing(c1) /\ Playing(c2) /\ cmd[c1].user = cmd[c2].user)
            => cmd[c1].handler # cmd[c2].handler

(* C4: no step of a refused command changes a registry, a balance, the    *)
(* economy cache or the ledger: the holder's entry stays the same prompt.  *)
C4_RejectedNoChange ==
    [][\A c \in Cmds :
          (cmd'[c].rejected /\ cmd'[c] # cmd[c])
              => /\ active_games' = active_games
                 /\ supabase'.economy = supabase.economy
                 /\ supabase'.economy_logs = supabase.economy_logs
                 /\ ECONOMY_CACHE' = ECONOMY_CACHE]_vars

(* A refused command has returned while the holder still waits on its prompt. *)
C4_RefusedAndGone ==
    \E c, c2 \in Cmds :
        /\ cmd[c].pc = "done" /\ cmd[c].rejected
        /\ cmd[c2].pc = "race" /\ cmd[c2].handler = cmd[c].handler
        /\ Entry(c2) = Prompt(c2)

(* C5: the step by which an admitted command returns, whatever the path,   *)
(* leaves no registry entry for its user.                                  *)
C5_GuaranteedCleanup ==
    [][\A c \in Cmds :
          (cmd[c].pc # "done" /\ cmd'[c].pc = "done" /\ cmd'[c].admitted)
              => ~active_games'[CogOf(cmd'[c].handler)][cmd'[c].user].in]_vars

(* An admitted command has returned after its game was settled. *)
C5_ReturnedAfterGame ==
    /\ cmd[1].pc = "done" /\ cmd[1].admitted
    /\ Len(supabase.economy_logs) = 1
    /\ ~active_games[CogOf(cmd[1].handler)][cmd[1].user].in

(* C6: a session whose wait ended by the prompt timing out touches neither *)
(* a balance nor the ledger from then on, and returns with its registry    *)
(* entry removed.                                                          *)
C6_TimeoutLeavesBalance ==
    [][\A c \in Solo :
          (cmd'[c] # cmd[c] /\ (cmd[c].last_race = "timeout" \/ cmd'[c].last_race = "timeout"))
              => /\ supabase'.economy = supabase.economy
                 /\ supabase'.economy_logs = supabase.economy_logs
                 /\ cmd'[c].pc = "done"
                       => ~active_games'[CogOf(cmd'[c].handler)][cmd'[c].user].in]_vars

(* C7: a blackjack turn that neither source answered resolves to the      *)
(* action "timeout", and the command does not prompt again.                *)
C7_TimeoutAction ==
    \A c \in Solo :
        (IsBlackjack(cmd[c].handler) /\ cmd[c].last_race = "timeout")
            => /\ cmd[c].pc # "prompt"
               /\ cmd[c].pc = "clear" => cmd[c].action = "timeout"

(* C8: when the race is resolved, the action is that of the source that   *)
(* completed first: the message's (h: hit, s: stand) or the button's.      *)
C8_FirstSourceWins ==
    [][\A c \in Solo :
          (cmd[c].pc = "race" /\ IsBlackjack(cmd[c].handler) /\ cmd'[c].pc # "race")
              => /\ cmd[c].first = "msg"
                    => /\ cmd'[c].last_race = "msg"
                       /\ cmd'[c].action = IF cmd[c].msg = "h" THEN "hit" ELSE "stand"
                 /\ cmd[c].first = "view"
                    => /\ cmd'[c].last_race \in {"button", "timeout"}
                       /\ cmd'[c].action = cmd[c].view.action]_vars

(* C9: every admitted command eventually returns, even when the player    *)
(* never answers a prompt.                                                 *)
C9_SessionEnds ==
    \A c \in Solo : (cmd[c].admitted /\ cmd[c].pc # "done") ~> (cmd[c].pc = "done")

(* C10: the timeout handler of a view whose turn the chat channel resolved *)
(* never changes a registry.                                               *)
C10_NoStrayCallback ==
    [][\A cog \in Cogs, u \in GameUsers :
          timeout_tasks'[cog][u].stale < timeout_tasks[cog][u].stale
              => active_games' = active_games]_vars

(***************************************************************************)
(* Claims about the ledger.                                                *)
(***************************************************************************)
(* C11: the ledger only grows: every step leaves the entries it held in    *)
(* place and unchanged, and a step that changes the ledger is an           *)
(* update_user_balance call that appends one entry.                        *)
C11_LedgerAppendOnly ==
    [][/\ Len(supabase'.economy_logs) >= Len(supabase.economy_logs)
       /\ SubSeq(supabase'.economy_logs, 1, Len(supabase.economy_logs))
             = supabase.economy_logs
       /\ supabase'.economy_logs # supabase.economy_logs
             => /\ Len(supabase'.economy_logs) = Len(supabase.economy_logs) + 1
                /\ \E k \in CallKeys, req \in Requests, f \in LedgerFaults :
                      CallUpdateUserBalance(k[1], k[2], req, f)]_vars

C11_LedgerExtended == Len(supabase.economy_logs) = 2

(* C12: when update_user_balance has stored the new balance and the append *)
(* to economy_logs raises, the row and the cache entry of (g, u) hold the  *)
(* new balance and the ledger is as it was: nothing is reversed and the    *)
(* append is not made again.                                               *)
C12_AppendFailureKeepsBalance ==
    [][\A k \in CallKeys, req \in Requests :
        LET g == k[1]
            u == k[2]
            user_data == get_user_economy_data(World, g, u, {"log"}, now)
        IN  CallUpdateUserBalance(g, u, req, {"log"}) =>
              /\ EconomyRows(supabase', g, u) # {}
              /\ \A row \in EconomyRows(supabase', g, u) :
                    row.balance = user_data.ret.balance + req.change
              /\ IsEntry(ECONOMY_CACHE'[<<g, u>>])
              /\ ECONOMY_CACHE'[<<g, u>>].data.balance = user_data.ret.balance + req.change
              /\ supabase'.economy_logs = supabase.economy_logs]_vars

C12_BalanceWithoutEntry ==
    /\ supabase.economy_logs = <<>>
    /\ \E row \in supabase.economy : row.participant /\ row.balance = 1500

(* C13: an append to economy_logs that raises after the balance was stored *)
(* does not fail update_user_balance: the call returns the new balance.    *)
C13_AppendFailureNotFatal ==
    [][\A k \in CallKeys, req \in Requests :
        LET g == k[1]
            u == k[2]
            user_data == get_user_economy_data(World, g, u, {"log"}, now)
            r == update_user_balance(World, g, u, req.change, req.action, req.type,
                                     req.target_user_id, {"log"}, now)
        IN  CallUpdateUserBalance(g, u, req, {"log"}) =>
              r.ok /\ r.ret = user_data.ret.balance + req.change]_vars

(***************************************************************************)
(* Claims about the caches and the configuration.                          *)
(***************************************************************************)
(* The state a step leaves, as the world the next call starts from. *)
WorldAfter ==
    [db |-> supabase',
     cache |-> [server_configs |-> SERVER_CONFIG_CACHE', economy |-> ECONOMY_CACHE'],
     reads |-> 0]

(* The ages at which a cache entry written at updated_at is looked up. *)
Ages(updated_at) == {0, TTL - 1, TTL, TTL + 1} \cup {now - updated_at}

(* C14: after update_server_config(g, {prefix: p}) has returned, a         *)
(* get_server_config(g) within TTL returns prefix p and sends no select    *)
(* to the store.                                                           *)
C14_CacheCoherence ==
    [][\A g \in Guilds, f \in FaultSets :
        (/\ CallUpdateServerConfig(g, [prefix |-> "!"], f)
         /\ update_server_config(World, g, [prefix |-> "!"], f, now).ok)
        => \A t \in {now, now + TTL - 1} :
              /\ get_server_config(WorldAfter, g, {}, t).ok
              /\ get_server_config(WorldAfter, g, {}, t).ret.prefix = "!"
              /\ get_server_config(WorldAfter, g, {}, t).reads = 0]_vars

(* C15: a cache entry whose age is TTL or more is given by no lookup:      *)
(* cache_retrieve returns nothing, retrieve reads the store, and           *)
(* get_multiple_user_economy_data fetches the user from the store; an      *)
(* entry younger than TTL is what the lookup returns, with no read of the  *)
(* store.                                                                  *)
C15_TTLExpiry ==
    /\ \A k \in Keys : IsEntry(ECONOMY_CACHE[k]) =>
          \A age \in Ages(ECONOMY_CACHE[k].updated_at) :
             LET t == ECONOMY_CACHE[k].updated_at + age
                 conditions == [guild_id |-> k[1], user_id |-> k[2]]
             IN  IF age >= TTL
                 THEN /\ cache_retrieve(World.cache, "economy", conditions, t) = {}
                      /\ retrieve(World, "economy", conditions, {}, t).reads = 1
                      /\ retrieve(World, "economy", conditions, {}, t).ret
                            = EconomyRows(supabase, k[1], k[2])
                      /\ get_multiple_user_economy_data(World, k[1], {k[2]}, {}, t).reads = 1
                      /\ get_multiple_user_economy_data(World, k[1], {k[2]}, {}, t).ret
                            = EconomyRows(supabase, k[1], k[2])
                 ELSE /\ cache_retrieve(World.cache, "economy", conditions, t)
                            = {ECONOMY_CACHE[k].data}
                      /\ retrieve(World, "economy", conditions, {}, t).reads = 0
                      /\ retrieve(World, "economy", conditions, {}, t).ret
                            = {ECONOMY_CACHE[k].data}
                      /\ get_multiple_user_economy_data(World, k[1], {k[2]}, {}, t).reads = 0
    /\ \A g \in Guilds : IsEntry(SERVER_CONFIG_CACHE[g]) =>
          \A age \in Ages(SERVER_CONFIG_CACHE[g].updated_at) :
             LET t == SERVER_CONFIG_CACHE[g].updated_at + age
             IN  IF age >= TTL
                 THEN /\ cache_retrieve(World.cache, "server_configs", [guild_id |-> g], t) = {}
                      /\ retrieve(World, "server_configs", [guild_id |-> g], {}, t).reads = 1
                      /\ retrieve(World, "server_configs", [guild_id |-> g], {}, t).ret
                            = ConfigRows(supabase, g)
                 ELSE /\ cache_retrieve(World.cache, "server_configs", [guild_id |-> g], t)
                            = {SERVER_CONFIG_CACHE[g].data}
                      /\ retrieve(World, "server_configs", [guild_id |-> g], {}, t).reads = 0
                      /\ retrieve(World, "server_configs", [guild_id |-> g], {}, t).ret
                            = {SERVER_CONFIG_CACHE[g].data}

C15_ExpiredEntryKept ==
    \E k \in Keys :
        /\ IsEntry(ECONOMY_CACHE[k])
        /\ now - ECONOMY_CACHE[k].updated_at >= TTL
        /\ IsEntry(SERVER_CONFIG_CACHE[k[1]])
        /\ now - SERVER_CONFIG_CACHE[k[1]].updated_at >= TTL

(* C16: when update has written the store and its select for the cache     *)
(* raises, the lookup of the written key no longer gives the document from *)
(* before the write.                                                       *)
C16_FailedRefreshInvalidates ==
    [][\A k \in CallKeys :
        (/\ CallUpdateUserEconomy(k[1], k[2], {"refresh"})
         /\ update_user_economy(World, k[1], k[2], [last_work |-> now], {"refresh"}, now).ok)
        => cache_retrieve(WorldAfter.cache, "economy",
                          [guild_id |-> k[1], user_id |-> k[2]], now)
              \subseteq EconomyRows(supabase', k[1], k[2])]_vars

(* C17: when the store fails the write of update_user_economy or of        *)
(* update_user_balance, the call raises and the cache holds no entry for   *)
(* the written key.                                                        *)
C17_FailedWriteInvalidates ==
    [][\A k \in CallKeys :
        (\/ CallUpdateUserEconomy(k[1], k[2], {"update"})
         \/ \E req \in Requests : CallUpdateUserBalance(k[1], k[2], req, {"update"}))
        => /\ ~update_user_economy(World, k[1], k[2], [last_work |-> now], {"update"}, now).ok
           /\ ~IsEntry(ECONOMY_CACHE'[k])]_vars

(* C18: the store holds at most one configuration per guild and exactly    *)
(* one for every guild that was looked up (every guild with a cache        *)
(* entry); a lookup that meets no store failure returns a configuration    *)
(* that is stored and cached.                                              *)
C18_OneConfigPerGuild ==
    [][/\ \A g \in Guilds :
            /\ Cardinality(ConfigRows(supabase', g)) <= 1
            /\ IsEntry(SERVER_CONFIG_CACHE'[g]) => Cardinality(ConfigRows(supabase', g)) = 1
       /\ \A g \in Guilds :
            CallGetServerConfig(g, {}) =>
               /\ get_server_config(World, g, {}, now).ok
               /\ get_server_config(World, g, {}, now).ret \in ConfigRows(supabase', g)
               /\ SERVER_CONFIG_CACHE'[g].data = get_server_config(World, g, {}, now).ret]_vars

(* C19: get_server_config of a guild whose stored economy document lacks   *)
(* keys of DEFAULT_ECONOMY_CONFIG returns an economy section with every    *)
(* key of DEFAULT_ECONOMY_CONFIG, the stored value where there is one and  *)
(* the default where there is none, and leaves the stored row as it was.   *)
C19_MergedOnRead ==
    [][\A g \in Guilds :
        (ConfigRows(supabase, g) # {} /\ CallGetServerConfig(g, {}))
        => /\ get_server_config(World, g, {}, now).ok
           /\ ConfigRows(supabase', g) = ConfigRows(supabase, g)
           /\ \A k \in DOMAIN DEFAULT_ECONOMY_CONFIG :
                 /\ k \in DOMAIN get_server_config(World, g, {}, now).ret.economy
                 /\ get_server_config(World, g, {}, now).ret.economy[k]
                       = IF k \in DOMAIN (CHOOSE r \in ConfigRows(supabase, g) : TRUE).economy
                         THEN (CHOOSE r \in ConfigRows(supabase, g) : TRUE).economy[k]
                         ELSE DEFAULT_ECONOMY_CONFIG[k]]_vars

(* The section of g's configuration as the store has it, or the default    *)
(* of a guild without a row.                                               *)
StoredSection(db, g, key) ==
    IF ConfigRows(db, g) # {}
    THEN (CHOOSE r \in ConfigRows(db, g) : TRUE)[key]
    ELSE DefaultServerConfig(g)[key]

(* C20: update_server_config(g, {economy: P}) or {moneydrop: P}, when no   *)
(* store call is made to fail, leaves a configuration whose section has    *)
(* P's values for the keys of P and the values it had for the other keys.  *)
C20_PartialSectionUpdate ==
    [][\A g \in Guilds, data \in ConfigUpdates, key \in {"economy", "moneydrop"} :
        (key \in DOMAIN data /\ CallUpdateServerConfig(g, data, {}))
        => /\ get_server_config(WorldAfter, g, {}, now).ok
           /\ \A k \in DOMAIN StoredSection(supabase, g, key) :
                 get_server_config(WorldAfter, g, {}, now).ret[key][k]
                    = IF k \in DOMAIN data[key] THEN data[key][k]
                      ELSE StoredSection(supabase, g, key)[k]]_vars

(* C21: update_server_config(g, data) leaves the stored row and the cache  *)
(* entry of every other guild as they were, and leaves the top-level keys  *)
(* of g's stored row that data does not name as they were.                 *)
C21_ConfigWritesPartitioned ==
    [][\A g \in Guilds, data \in ConfigUpdates, f \in FaultSets \ {{"log"}} :
        CallUpdateServerConfig(g, data, f)
        => /\ \A g2 \in Guilds \ {g} :
                 /\ ConfigRows(supabase', g2) = ConfigRows(supabase, g2)
                 /\ SERVER_CONFIG_CACHE'[g2] = SERVER_CONFIG_CACHE[g2]
           /\ \A r \in ConfigRows(supabase, g) :
                 \E r2 \in ConfigRows(supabase', g) :
                    \A key \in DOMAIN r \ DOMAIN data : r2[key] = r[key]]_vars

(* The guild's cache entry is one a lookup at time t would use. *)
LiveConfig(g, t) ==
    /\ IsEntry(SERVER_CONFIG_CACHE[g])
    /\ t - SERVER_CONFIG_CACHE[g].updated_at < TTL

C23_EveryRequestedRecord ==
    [][\A g \in Guilds, user_ids \in SUBSET Users :
        CallGetMultipleUserEconomyData(g, user_ids, {})
        => /\ get_multiple_user_economy_data(World, g, user_ids, {}, now).ok
           /\ \A u \in user_ids :
                 (\/ EconomyRows(supabase, g, u) # {}
                  \/ cache_retrieve(World.cache, "economy",
                                    [guild_id |-> g, user_id |-> u], now) # {})
                 => \E r \in get_multiple_user_economy_data(World, g, user_ids, {}, now).ret :
                       r.guild_id = g /\ r.user_id = u
           /\ user_ids = {} =>
                 get_multiple_user_economy_data(World, g, user_ids, {}, now).ret
                    = {r \in supabase.economy : r.guild_id = g}
           /\ \A r \in get_multiple_user_economy_data(World, g, user_ids, {}, now).ret :
                 ECONOMY_CACHE'[<<r.guild_id, r.user_id>>].data = r]_vars

(***************************************************************************)
(* Claims about deep_merge.                                                *)
(***************************************************************************)
(* C24: for every source X and destination D, when deep_merge(X, D)        *)
(* returns M, deep_merge(X, M) returns M: merging the same partial again   *)
(* changes nothing.                                                        *)
C24_MergeIdempotent ==
    deep_merge(merge_source, merge_destination).ok
    => deep_merge(merge_source, deep_merge(merge_source, merge_destination).doc)
          = deep_merge(merge_source, merge_destination)

(* A merge that wrote a nested dictionary into the destination, made twice. *)
C24_MergedTwice ==
    /\ merge_calls = 2
    /\ ~merge_raised
    /\ \E i \in DOMAIN merge_source.items :
          /\ IsDict(merge_source.items[i].value)
          /\ merge_source.items[i].value.items # <<>>
          /\ IsDict(merge_destination.dict[merge_source.items[i].key])

(* The keys of a source dictionary. *)
SourceKeys(source) == {source.items[i].key : i \in DOMAIN source.items}

(* after is before but for the keys source names, at every level. *)
RECURSIVE Untouched(_, _, _)
Untouched(source, before, after) ==
    IF ~IsDict(before) THEN after = before
    ELSE /\ IsDict(after)
         /\ \A key \in DOMAIN before.dict :
               /\ key \in DOMAIN after.dict
               /\ IF key \notin SourceKeys(source)
                  THEN after.dict[key] = before.dict[key]
                  ELSE \A i \in DOMAIN source.items :
                          (source.items[i].key = key /\ IsDict(source.items[i].value))
                          => Untouched(source.items[i].value, before.dict[key],
                                       after.dict[key])

(* C25: deep_merge(source, destination) leaves every key of destination    *)
(* that source does not name, at every level, with the value it had, and   *)
(* leaves source as it was; update_server_config and update_user_economy   *)
(* merge into a copy: when the store fails the write, the document the     *)
(* cache holds for the guild or the user is the one it held or the one the *)
(* store has.                                                              *)
C25_MergeFrame ==
    [][/\ merge_calls' # merge_calls =>
            /\ Untouched(merge_source, merge_destination, merge_destination')
            /\ merge_source' = merge_source
       /\ ncalls' # ncalls =>
            /\ \A g \in Guilds, data \in CopyConfigs :
                  (/\ CallUpdateServerConfig(g, data, {"update"})
                   /\ ~update_server_config(World, g, data, {"update"}, now).ok
                   /\ IsEntry(SERVER_CONFIG_CACHE'[g]))
                  => SERVER_CONFIG_CACHE'[g].data
                        \in {SERVER_CONFIG_CACHE[g].data} \cup ConfigRows(supabase', g)
            /\ \A k \in CopyKeys, data \in TiktokUpdates :
                  (/\ CallUpdateUserTiktok(k[1], k[2], data, {"update"})
                   /\ ~update_user_economy(World, k[1], k[2], data, {"update"}, now).ok
                   /\ IsEntry(ECONOMY_CACHE'[k]))
                  => ECONOMY_CACHE'[k].data
                        \in {ECONOMY_CACHE[k].data}
                            \cup EconomyRows(supabase', k[1], k[2])]_vars

(* A merge of a nested source that kept a key of the nested destination,   *)
(* and a merged economy section and a merged tiktok section in the store.  *)
C25_MergedAndStored ==
    /\ merge_calls > 0
    /\ ~merge_raised
    /\ \E i \in DOMAIN merge_source.items :
          /\ IsDict(merge_source.items[i].value)
          /\ merge_source.items[i].value.items # <<>>
          /\ DOMAIN merge_destination.dict[merge_source.items[i].key].dict
                \ SourceKeys(merge_source.items[i].value) # {}
    /\ \E g \in Guilds :
          /\ StoredSection(supabase, g, "economy").work_min_amount = 10
          /\ StoredSection(supabase, g, "economy").work_max_amount = 500
    /\ \E r \in supabase.economy : r.tiktok.id = "id" /\ r.tiktok.link = None

(***************************************************************************)
(* Claims about the commands and their messages.                           *)
(***************************************************************************)
(* The ledger holds an entry of the user with one of the actions. *)
Recorded(db, u, actions) ==
    \E i \in DOMAIN db.economy_logs :
        db.economy_logs[i].user_id = u /\ db.economy_logs[i].action \in actions

(* C28: a notification that fails does not abort or undo the mutation of  *)
(* its command: when the result message of a game (the roulette result,   *)
(* the blackjack push message) fails to be sent, the balance change of    *)
(* that result and its ledger entry are in the store all the same.         *)
C28_NotificationFailureKeepsMutation ==
    [][\A c \in Solo :
          (RouletteSettle(c, FALSE, {}) \/ PushSent(c, FALSE, {}))
              => Recorded(supabase', cmd[c].user,
                          {"roulette_won", "roulette_loss", "blackjack_push"})]_vars

(* C29: in the Casino cog a user never holds a roulette game and a         *)
(* blackjack game at once, whichever of the two commands arrives first     *)
(* and however far the first one has got.                                  *)
C29_OneCasinoGame ==
    \A c1, c2 \in Cmds :
        (/\ cmd[c1].handler = "Casino.roulette"
         /\ cmd[c2].handler = "Casino.blackjack"
         /\ cmd[c1].user = cmd[c2].user)
            => ~(Playing(c1) /\ Playing(c2))

(* The command has shown its first prompt and waits on the player or on a  *)
(* call that follows the player's move; it has not returned.               *)
PromptShown(c) ==
    cmd[c].pc \in {"race", "del_msg", "clear", "stand_embed", "push_send", "settle"}

(* C30: as long as a command that has shown its first prompt has not       *)
(* returned, the registry entry of its user is that game's prompt: no      *)
(* on_timeout of a view and no cleanup of another command removes or       *)
(* replaces it.                                                            *)
C30_EntryHeldWhilePlaying ==
    \A c \in Cmds : PromptShown(c) => Entry(c) = Prompt(c)

(***************************************************************************)
(* Claims about the economy commands.                                      *)
(***************************************************************************)
(* The steal of u from member passes the cooldown and the target checks in *)
(* a guild whose configured steal_chance is 0.                             *)
HopelessSteal(u, member) ==
    /\ get_server_config(World, EcoGuild, {}, now).ret.economy.steal_chance = 0
    /\ u # member
    /\ ~OnCooldown(get_user_economy_data(World, EcoGuild, u, {}, now).ret.last_steal,
                   get_server_config(World, EcoGuild, {}, now).ret.economy.steal_cooldown_hours,
                   now)

(* The thief pays the penalty and the ledger gains the one entry of it. *)
PenaltyPaid(u, member) ==
    /\ \A r \in EconomyRows(supabase', EcoGuild, u) :
          r.balance = get_user_economy_data(World, EcoGuild, u, {}, now).ret.balance
                      - get_server_config(World, EcoGuild, {}, now).ret.economy.steal_penalty
    /\ EconomyRows(supabase', EcoGuild, u) # {}
    /\ supabase'.economy_logs =
          Append(supabase.economy_logs,
                 LedgerEntry(EcoGuild, u,
                     [change |-> 0 - get_server_config(World, EcoGuild, {}, now)
                                        .ret.economy.steal_penalty,
                      action |-> "steal_fail", type |-> "USER", target_user_id |-> member],
                     now))

(* C26: with steal_chance configured as 0 every steal that passes the      *)
(* cooldown and target checks takes the failure branch: the thief's        *)
(* balance goes down by steal_penalty, exactly one ledger entry is         *)
(* appended, with amount -steal_penalty, and the target's balance stays as *)
(* it was.                                                                 *)
C26_StealNeverSucceeds ==
    [][\A c \in EcoCmds, u \in Users, member \in Users, draw \in Draws, top \in BOOLEAN :
          (Steal(c, u, member, draw, top, {}) /\ HopelessSteal(u, member))
              => /\ PenaltyPaid(u, member)
                 /\ \A r \in EconomyRows(supabase, EcoGuild, member) :
                       \E r2 \in EconomyRows(supabase', EcoGuild, member) :
                           r2.balance = r.balance]_vars

(* The amount is rejected: it is malformed or a percentage outside         *)
(* (0, 100], or it comes to nothing or to more than the balance.           *)
Rejected(amount_str, balance) ==
    \/ ~amount_str_to_int(amount_str, balance).ok
    \/ amount_str_to_int(amount_str, balance).value <= 0
    \/ amount_str_to_int(amount_str, balance).value > balance

(* The step leaves every balance of the guild and the ledger as they were. *)
NothingMoved ==
    /\ supabase'.economy_logs = supabase.economy_logs
    /\ \A u \in Users :
          PreviousBalance(supabase', EcoGuild, u) = PreviousBalance(supabase, EcoGuild, u)

(* C27: a game or give command with an invalid amount (malformed, not      *)
(* positive, a percentage outside (0, 100], more than the balance) ends    *)
(* with the balances and the ledger as they were before it, and a game     *)
(* command with its user out of the registry.                              *)
C27_InvalidInputRejected ==
    [][/\ \A c \in Solo, bet_str \in BetStrs :
             (/\ cmd[c].pc = "idle" /\ cmd'[c].pc # "idle"
              /\ Rejected(bet_str, get_user_economy_data(World, GameGuild, cmd'[c].user,
                                                         {}, now).ret.balance)
              /\ \E ph \in PairHands, dh \in PairHands :
                    Invoke(c, cmd'[c].handler, cmd'[c].user, bet_str, ph, dh, {}))
                 => NothingMoved /\ cmd'[c].pc = "invalid"
       /\ \A c \in Solo :
             (cmd[c].pc = "invalid" /\ InvalidSent(c))
                 => /\ NothingMoved
                    /\ cmd'[c].pc = "done"
                    /\ active_games'[CogOf(cmd[c].handler)][cmd[c].user] = Absent
       /\ \A c \in Givers, amount \in GiveAmounts \ {NoAmount} :
             (/\ eco[c].pc = "idle" /\ eco'[c].pc # "idle"
              /\ Rejected(amount, get_user_economy_data(World, EcoGuild, eco'[c].user,
                                                        {}, now).ret.balance)
              /\ \E top \in BOOLEAN :
                    Give(c, eco'[c].user, eco'[c].member, amount, top, {}))
                 => NothingMoved /\ eco'[c].pc = "reply"
       /\ \A c \in Givers :
             (eco[c].pc = "reply" /\ EcoReplied(c)) => NothingMoved /\ eco'[c].pc = "done"]_vars

(* A give of an amount that is refused and a game with a bet that is       *)
(* refused, both at their refusal message, the ledger empty and the        *)
(* player's reservation still in the registry.                             *)
C27_BothRefused ==
    /\ \E c \in Givers : /\ eco[c].pc = "reply"
                         /\ eco[c].command = "give"
                         /\ eco[c].member # eco[c].user
    /\ \E c \in Solo : cmd[c].pc = "invalid" /\ Entry(c) = Reserved
    /\ supabase.economy_logs = <<>>

(***************************************************************************)
(* Claims about the roulette payout.                                       *)
(***************************************************************************)
(* The bet hits the number the wheel stopped on. *)
Hit(bet_type, bet_choice, n) ==
    IF bet_type = "single" THEN n = bet_choice.num
    ELSE IF bet_type = "color" THEN ROULETTE_NUMBERS[n] = bet_choice.word
    ELSE IF bet_type = "parity"
    THEN n # 0 /\ (IF n % 2 = 0 THEN "even" ELSE "odd") = bet_choice.word
    ELSE IF bet_type = "dozen"
    THEN n # 0 /\ (bet_choice.num - 1) * 12 < n /\ n <= bet_choice.num * 12
    ELSE n # 0 /\ n % 3 = bet_choice.num % 3

(* C38: get_winnings pays 35 times the bet on a single-number hit, the bet *)
(* on a colour or parity hit, twice the bet on a dozen hit and on a row    *)
(* hit (the number is not zero and is congruent to the row modulo 3), and  *)
(* takes the bet otherwise; the RouletteGame of the roulette command and   *)
(* the one of the Casino command pay the same.                             *)
C38_RoulettePayout ==
    wheel.spun =>
        wheel.winnings =
            IF Hit(wheel.bet_type, wheel.bet_choice, wheel.number)
            THEN wheel.bet * (IF wheel.bet_type = "single" THEN 35
                              ELSE IF wheel.bet_type \in {"color", "parity"} THEN 1 ELSE 2)
            ELSE 0 - wheel.bet

(***************************************************************************)
(* Claims about settlements.                                               *)
(***************************************************************************)
(* The ledger entries a step appends. *)
Appended ==
    SubSeq(supabase'.economy_logs, Len(supabase.economy_logs) + 1,
           Len(supabase'.economy_logs))

(* The (tag, amount) pairs a blackjack command at rec may record in its    *)
(* next step: the outcome its hands and its bet decide.                    *)
Outcomes(rec) ==
    IF rec.pc = "idle"
    THEN {<<"blackjack_win",
            BlackjackWinnings(amount_str_to_int(
                bet_str, get_user_economy_data(World, GameGuild, u, {}, now).ret.balance).value)>> :
             bet_str \in BetStrs, u \in GameUsers}
    ELSE IF rec.pc = "clear" /\ rec.action = "hit"
    THEN {<<"blackjack_loss", 0 - rec.bet>>}
    ELSE IF rec.pc = "stand_embed"
    THEN IF get_hand_value(rec.dealer_hand) > 21
            \/ get_hand_value(rec.player_hand) > get_hand_value(rec.dealer_hand)
         THEN {<<"blackjack_win", BlackjackWinnings(rec.bet)>>}
         ELSE IF get_hand_value(rec.player_hand) < get_hand_value(rec.dealer_hand)
         THEN {<<"blackjack_loss", 0 - rec.bet>>}
         ELSE {}
    ELSE IF rec.pc = "push_send" THEN {<<"blackjack_push", 0>>}
    ELSE {}

(* C31: a blackjack game records its outcome with exactly one              *)
(* update_user_balance call: floor(1.5 * bet) as blackjack_win on a        *)
(* natural or a win, -bet as blackjack_loss on a bust or a lower hand, 0   *)
(* as blackjack_push on a tie; no call comes before the outcome is         *)
(* decided, none on a refused bet or a timeout, and a game whose outcome   *)
(* is decided does not end without its call.                               *)
C31_BlackjackSettlesOnce ==
    [][\A c \in Solo :
          IsBlackjack(cmd'[c].handler)
              => /\ Len(Appended) <= 1
                 /\ cmd'[c].balance_calls <= 1
                 /\ \A i \in DOMAIN Appended :
                       <<Appended[i].action, Appended[i].amount>> \in Outcomes(cmd[c])
                 /\ (cmd[c].pc = "push_send" /\ PushSent(c, FALSE, {}))
                       => Recorded(supabase', cmd[c].user, {"blackjack_push"})]_vars

(* The ledger entries of a pair, and the sum of their amounts. *)
EntriesOf(db, g, u) ==
    {i \in DOMAIN db.economy_logs :
        db.economy_logs[i].guild_id = g /\ db.economy_logs[i].user_id = u}

RECURSIVE SumOf(_, _)
SumOf(logs, S) ==
    IF S = {} THEN 0
    ELSE LET i == CHOOSE j \in S : TRUE
         IN  logs[i].amount + SumOf(logs, S \ {i})

(* C32: when two update_user_balance calls on one pair, the only pair of   *)
(* the table, have both returned, the stored balance is the starting       *)
(* balance plus both amounts and the ledger holds both entries: neither    *)
(* call overwrites the other's result from a stale read.                   *)
C32_NoLostUpdate ==
    \A k \in CallKeys :
        (/\ ncalls = 2
         /\ Len(supabase.economy_logs) = 2
         /\ EntriesOf(supabase, k[1], k[2]) = {1, 2}
         /\ \A row \in supabase.economy : row.guild_id = k[1] /\ row.user_id = k[2])
            => \A row \in supabase.economy :
                  row.balance = DEFAULT_ECONOMY_CONFIG.starting_balance
                                    + SumOf(supabase.economy_logs, {1, 2})

(***************************************************************************)
(* Lookups and balance changes against a store that never fails.           *)
(***************************************************************************)
SoundNext ==
    \/ \E k \in CallKeys : CallGetUserEconomyData(k[1], k[2], {})
    \/ \E k \in CallKeys, req \in Requests : CallUpdateUserBalance(k[1], k[2], req, {})
    \/ Tick

SpecSound == Init /\ [][SoundNext]_vars

(* C33: with a store that never fails, between update_user_balance calls   *)
(* the balance of every economy row is the starting balance the row was    *)
(* created with plus the amounts of the ledger entries of its pair.        *)
C33_BalanceIsLedgerSum ==
    \A row \in supabase.economy :
        row.balance = DEFAULT_ECONOMY_CONFIG.starting_balance
                          + SumOf(supabase.economy_logs,
                                  EntriesOf(supabase, row.guild_id, row.user_id))

(* The balance of a user of the guild of the economy commands: the one of  *)
(* the row, or the starting balance the row will be created with.          *)
Bal(db, u) ==
    IF \E row \in db.economy : row.guild_id = EcoGuild /\ row.user_id = u
    THEN (CHOOSE row \in db.economy : row.guild_id = EcoGuild /\ row.user_id = u).balance
    ELSE DEFAULT_ECONOMY_CONFIG.starting_balance

(* The two balances moved by `a` from u to v, with one ledger entry each. *)
Moved(u, v, a) ==
    /\ a > 0
    /\ Bal(supabase', u) = Bal(supabase, u) - a
    /\ Bal(supabase', v) = Bal(supabase, v) + a
    /\ Len(Appended) = 2

(* C34: the stretch of give (and of steal) that holds the two              *)
(* update_user_balance calls either moves an amount from one user to the   *)
(* other, with one ledger entry each, or leaves both balances as they      *)
(* were; a give adds no ledger entry then, a steal at most the penalty of  *)
(* the thief.                                                              *)
C34_TransferAllOrNothing ==
    [][\A c \in EcoCmds :
          (eco[c].pc = "idle" /\ eco'[c].pc # "idle")
              => LET u == eco'[c].user
                     v == eco'[c].member
                 IN  /\ eco'[c].command = "give"
                          => \/ Moved(u, v, Bal(supabase, u) - Bal(supabase', u))
                             \/ /\ Bal(supabase', u) = Bal(supabase, u)
                                /\ Bal(supabase', v) = Bal(supabase, v)
                                /\ Len(Appended) = 0
                     /\ (eco'[c].command = "steal" /\ u # v)
                          => \/ Moved(v, u, Bal(supabase', u) - Bal(supabase, u))
                             \/ /\ Bal(supabase', v) = Bal(supabase, v)
                                /\ Bal(supabase', u) \in
                                      {Bal(supabase, u),
                                       Bal(supabase, u) - DEFAULT_ECONOMY_CONFIG.steal_penalty}]_vars

(* C35: the loss of a game, recorded as -bet, leaves the balance of the    *)
(* player at zero or above, whatever the player's other commands did to    *)
(* the balance after the bet was accepted.                                 *)
C35_LossCovered ==
    [][\A i \in DOMAIN Appended :
          (Appended[i].type = "BOT" /\ Appended[i].amount < 0)
              => \A row \in EconomyRows(supabase', Appended[i].guild_id, Appended[i].user_id) :
                    row.balance >= 0]_vars

(* The ledger entries of the claimed drops. *)
DropEntries(db) ==
    {i \in DOMAIN db.economy_logs : db.economy_logs[i].action = "money_drop_claim"}

(* C36: whatever the order of the presses on a drop's button, at most one  *)
(* update_user_balance call with tag money_drop_claim is made for the      *)
(* drop, and a press on a claimed drop is answered as already claimed and  *)
(* changes nothing in the store.                                           *)
C36_DropClaimedOnce ==
    [][/\ drop'.calls <= 1
       /\ Cardinality(DropEntries(supabase')) <= 1
       /\ \A u \in Users :
             /\ (drop.claimed /\ drop.press[u] = "idle" /\ drop'.press[u] # "idle")
                   => drop'.press[u] = "refuse" /\ supabase' = supabase
             /\ (drop.press[u] = "refuse" /\ drop'.press[u] # "refuse")
                   => drop'.press[u] = "done" /\ supabase' = supabase]_vars

(* One member was paid the drop and another one, who pressed later, was    *)
(* refused.                                                                *)
C36_PaidAndRefused ==
    \E u \in Users, v \in Users :
        /\ u # v
        /\ drop.calls = 1
        /\ drop.press[u] = "done" /\ drop.press[v] = "done"
        /\ \E i \in DropEntries(supabase) :
              /\ supabase.economy_logs[i].user_id = u
              /\ supabase.economy_logs[i].amount = drop.amount
        /\ EntriesOf(supabase, DropGuild, v) = {}

(* The work payouts of user u that lie less than the cooldown back. *)
RecentWork(db, u, t) ==
    {i \in EntriesOf(db, EcoGuild, u) :
        /\ db.economy_logs[i].action = "work"
        /\ t < db.economy_logs[i].timestamp
                 + DEFAULT_ECONOMY_CONFIG.work_cooldown_hours * 3600}

(* C37: a work command pays only when the last work payout of the user     *)
(* lies at least work_cooldown_hours back; inside the cooldown it changes  *)
(* no economy row and no ledger entry; and it leaves the last_work of      *)
(* every other user as it was.                                             *)
C37_WorkCooldown ==
    [][\A c \in EcoCmds :
          (eco[c].pc = "idle" /\ eco'[c].pc # "idle" /\ eco'[c].command = "work")
              => /\ RecentWork(supabase, eco'[c].user, now) # {}
                       => /\ supabase'.economy = supabase.economy
                          /\ supabase'.economy_logs = supabase.economy_logs
                 /\ \A row \in supabase.economy :
                       row.user_id # eco'[c].user
                           => \E kept \in supabase'.economy :
                                 /\ kept.guild_id = row.guild_id
                                 /\ kept.user_id = row.user_id
                                 /\ kept.last_work = row.last_work]_vars

(* The store holds a row of the pair; a row that was not there before has  *)
(* the starting balance of the guild.                                      *)
RowGiven(g, u) ==
    /\ EconomyRows(supabase', g, u) # {}
    /\ EconomyRows(supabase, g, u) = {}
          => \A row \in EconomyRows(supabase', g, u) :
                row.balance = DEFAULT_ECONOMY_CONFIG.starting_balance

(* C39: once on_member_join has handled the join of a member that is no    *)
(* bot, and once retroactive_setup has run without a failure, the store    *)
(* holds an economy row of the member with the starting balance of the     *)
(* guild.                                                                  *)
C39_MemberHasRecord ==
    [][/\ \A k \in CallKeys : OnMemberJoin(k[1], k[2], FALSE) => RowGiven(k[1], k[2])
       /\ OnReady({}) => \A g \in Guilds, u \in Users : RowGiven(g, u)]_vars

====
